---- MODULE Spec2Model ----
(***************************************************************************)
(* BlogAgents: the blog-post pipeline of blog_orchestrator.py, the seven   *)
(* agent workflow of zzz_pg_openai_workflow.py with its caller in          *)
(* app_v2_json.py, and the prompt builders of topic_idea_agent.py.         *)
(*                                                                         *)
(* The specifications of the module:                                       *)
(*   Spec       - a process running create_blog_post (app.py) or           *)
(*                call_workflow / run_workflow (app_v2_json.py)            *)
(*   SpecPrompt - the TopicIdeaAgent prompt builders on bounded inputs     *)
(*   SpecParse  - _parse_topic_ideas on bounded answers of the model       *)
(*   SpecResearch - parallel_research and its pool of worker threads       *)
(*   SpecFront  - a browser session on one of the three Streamlit pages    *)
(***************************************************************************)
EXTENDS Integers, Sequences, FiniteSets, TLC

VARIABLES
    app,       \* what this process runs: app, app_v2_json, app_v2, or parallel_research
    \* ---- blog_orchestrator.py ----
    pc,        \* position of create_blog_post: idle, style, research, writing, editing, done
    apc,       \* position of _run_agent_safely: idle, first, spawn, joining, ret
    tpc,       \* position of the helper thread run_in_thread: none, ready, calling, finished
    box,       \* the dict `result` of _run_agent_safely (line 87)
    outcome,   \* what _run_agent_safely hands to its caller: a return value or a raised error
    results,   \* the dict `results` of create_blog_post
    args,      \* the arguments of the current create_blog_post invocation
    calls,     \* Runner.run_sync calls issued in the current invocation, in order
    inflight,  \* indices (into calls) of the calls that have not returned yet
    status,    \* progress values passed to status_callback in the current invocation
    runs,      \* number of create_blog_post invocations so far
    \* ---- zzz_pg_openai_workflow.py / app_v2_json.py ----
    wpc,       \* position of run_workflow: idle, or the agent whose call is awaited, or done
    state,     \* the dict `state` of run_workflow, by path
    writes,    \* number of assignments made to each path of state since it was created
    writer,    \* index of the stage that last assigned a path (0: only the initial value)
    wcalls,    \* Runner.run calls issued in the current run, in order
    wouts,     \* what the calls of the current run returned, in order
    winput,    \* json_input given to call_workflow
    wresult,   \* value call_workflow returned
    wruns,     \* number of call_workflow invocations so far
    \* ---- custom_agents/topic_idea_agent.py ----
    target_keywords,      \* argument of _build_keyword_context
    existing_topics,      \* argument of _build_duplication_context
    keyword_context,      \* value returned by _build_keyword_context
    duplication_context,  \* value returned by _build_duplication_context
    product_target,       \* argument of _build_product_context
    product_context,      \* value returned by _build_product_context
    built_prompt,         \* the `prompt` that _build_prompt returns
    doc,                  \* what the model answered, line by line, as the lines were meant
    raw_output,           \* argument of _parse_topic_ideas: the text of doc, as lines
    topics,               \* value returned by _parse_topic_ideas(raw_output)
    rewritten,            \* the records of topics written out again as text
    reparsed,             \* value returned by _parse_topic_ideas(rewritten)
    \* ---- blog_orchestrator.py: parallel_research ----
    research_areas,       \* argument of parallel_research
    rpc,                  \* position of parallel_research: idle, collecting, exiting, returned, raised
    futures,              \* the futures of executor.submit, in the order of submission
    collected,            \* the dict `results` of parallel_research, as built so far
    pending_error,        \* the error that future.result() raised inside the with block
    rresult,              \* what parallel_research handed to its caller
    \* ---- the Streamlit pages: main() of app.py, app_v2.py, app_v2_json.py ----
    api_key,              \* the API key field, as the last script run read it
    page,                 \* the last script run: its text field, the button pressed,
                          \* and whether it started a pipeline run
    session,              \* st.session_state: the run flag, the stored input and result
    shown,                \* what the last script run displayed
    dispatches,           \* the pipeline runs started in this session, in order
    env_key,              \* os.environ["OPENAI_API_KEY"], NONE when it is not set
    script_runs,          \* number of script runs so far
    \* ---- history ----
    retried,              \* the current pipeline invocation follows one that failed
    \* ---- call_workflow of app_v2_json.py and its logging handler ----
    hpc,                  \* position of call_workflow: idle, running, returned
    hargs,                \* whether status_placeholder and progress_bar were given
    handlers,             \* the StreamlitHandlers of this call on the httpx logger
    agent_count,          \* agent_count[0]
    progress,             \* the values passed to progress_bar.progress, in order
    placeholder,          \* what status_placeholder shows, and at which count it was set
    index_error,          \* agents[...] was indexed past its end
    records,              \* number of records logged on the httpx logger so far
    hresult               \* what call_workflow returned

ovars == <<pc, apc, tpc, box, outcome, results, args, calls, inflight, status, runs>>
wvars == <<wpc, state, writes, writer, wcalls, wouts, winput, wresult, wruns>>
pvars == <<target_keywords, existing_topics, keyword_context, duplication_context>>
qvars == <<product_target, product_context, built_prompt>>
xvars == <<doc, raw_output, topics, rewritten, reparsed>>
rvars == <<research_areas, rpc, futures, collected, pending_error, rresult>>
fvars == <<api_key, page, session, shown, dispatches, env_key, script_runs>>
kvars == <<qvars, xvars, rvars, fvars>>
hvars == <<hpc, hargs, handlers, agent_count, progress, placeholder, index_error, records,
           hresult>>
evars == <<kvars, retried, hvars>>
vars == <<app, ovars, wvars, pvars, evars>>

\* Python's None, and a key that a dict does not hold.
NONE == "<none>"

\* ---- bounds of the model ----
MaxRuns == 2
MaxOverflow == 2
MaxLines == 3
MaxAreas == 3
MaxScriptRuns == 3

\* ---- program constants ----
MAX_KEYWORDS == 10
MAX_EXISTING_TOPICS == 50

(***************************************************************************)
(* The hosted model: every call returns one of Outputs or raises one of    *)
(* Errors.                                                                 *)
(***************************************************************************)
Outputs == {"text A", "text B"}
Errors == {"There is no current event loop in thread", "Event loop is closed",
           "rate limit exceeded"}

\* "event loop" in str(e).lower()
MentionsEventLoop(e) ==
    e \in {"There is no current event loop in thread", "Event loop is closed"}

\* f"Style analysis failed: {e}"
StyleFailedText(e) ==
    CASE e = "There is no current event loop in thread"
            -> "Style analysis failed: There is no current event loop in thread"
      [] e = "Event loop is closed" -> "Style analysis failed: Event loop is closed"
      [] e = "rate limit exceeded" -> "Style analysis failed: rate limit exceeded"
      [] OTHER -> "Style analysis failed: ?"

StageOrder == <<"style", "research", "writing", "editing">>
StageKey == [style |-> "style_guide", research |-> "research",
             writing |-> "draft", editing |-> "final"]
StageKeys == {"style_guide", "research", "draft", "final"}

StageIndex(s) == CHOOSE i \in 1..Len(StageOrder) : StageOrder[i] = s

EmptyResults == [k \in StageKeys \cup {"error"} |-> NONE]
EmptyBox == [error |-> NONE, output |-> NONE]
NoOutcome == [kind |-> "none", val |-> NONE]

TopicArgs == {"Remote Work"}
BlogArgs == {"ExampleBlog.com"}
RequirementArgs == {"", "Keep under 1500 words"}

(***************************************************************************)
(* blog_orchestrator.py                                                    *)
(***************************************************************************)

\* status_callback(message, progress), called only when a callback was given
WithStatus(cb, seq, ps) == IF cb THEN seq \o ps ELSE seq

\* Runner.run_sync(agent, prompt) is entered: the call is in flight until it
\* returns or raises.
RunSync(stage, by, prompt) ==
    /\ calls' = Append(calls, [stage |-> stage, by |-> by, prompt |-> prompt,
                                end |-> NoOutcome])
    /\ inflight' = inflight \cup {Len(calls) + 1}

\* call i returns or raises: it is no longer in flight
EndCall(i, kind, val) ==
    /\ calls' = [calls EXCEPT ![i].end = [kind |-> kind, val |-> val]]
    /\ inflight' = inflight \ {i}

style_prompt(a) == <<a.reference_blog>>
research_prompt(a) == <<a.topic, a.requirements>>
writing_prompt(a, style_guide, research) ==
    <<a.topic, style_guide, research, a.requirements, a.reference_blog>>
editing_prompt(a, style_guide, draft) == <<a.reference_blog, style_guide, draft>>

\* mutant: every error gets a second attempt
retry_any_error(e) == TRUE

\* the except branch of _run_agent_safely: which errors get a second attempt
retry_in_thread(e) == MentionsEventLoop(e)

\* mutant: the caller does not wait for the helper thread
thread_not_joined == TRUE

\* thread.join(): the caller goes on only when run_in_thread has ended
thread_joined == tpc = "finished"

\* the call issued by the helper thread of the current _run_agent_safely
ThreadCall ==
    CHOOSE i \in 1..Len(calls) :
        /\ calls[i].by = "thread"
        /\ \A j \in 1..Len(calls) : calls[j].by = "thread" => j <= i

\* mutant: the dict of the earlier invocation is used again, without its error
create_blog_post_keeps_results ==
    /\ app = "app"
    /\ pc \in {"idle", "done"}
    /\ runs < MaxRuns
    /\ \E t \in TopicArgs, rb \in BlogArgs, rq \in RequirementArgs, cb \in BOOLEAN :
        /\ args' = [topic |-> t, reference_blog |-> rb, requirements |-> rq, cb |-> cb]
        /\ status' = WithStatus(cb, <<>>, <<10, 15, 25>>)
        /\ calls' = <<[stage |-> "style", by |-> "main", prompt |-> style_prompt(args'),
                        end |-> NoOutcome]>>
    /\ inflight' = {1}
    /\ results' = [results EXCEPT !["error"] = NONE]
    /\ pc' = "style"
    /\ apc' = "first"
    /\ tpc' = "none"
    /\ box' = EmptyBox
    /\ outcome' = NoOutcome
    /\ runs' = runs + 1
    /\ retried' = (pc = "done" /\ results["error"] # NONE)
    /\ UNCHANGED <<app, wvars, pvars, kvars, hvars>>

\* create_blog_post is called; it runs up to the model call of the style stage
create_blog_post ==
    /\ app = "app"
    /\ pc \in {"idle", "done"}
    /\ runs < MaxRuns
    /\ \E t \in TopicArgs, rb \in BlogArgs, rq \in RequirementArgs, cb \in BOOLEAN :
        /\ args' = [topic |-> t, reference_blog |-> rb, requirements |-> rq, cb |-> cb]
        /\ status' = WithStatus(cb, <<>>, <<10, 15, 25>>)
        /\ calls' = <<[stage |-> "style", by |-> "main", prompt |-> style_prompt(args'),
                        end |-> NoOutcome]>>
    /\ inflight' = {1}
    /\ results' = EmptyResults
    /\ pc' = "style"
    /\ apc' = "first"
    /\ tpc' = "none"
    /\ box' = EmptyBox
    /\ outcome' = NoOutcome
    /\ runs' = runs + 1
    /\ retried' = (pc = "done" /\ results["error"] # NONE)
    /\ UNCHANGED <<app, wvars, pvars, kvars, hvars>>

\* the first Runner.run_sync of _run_agent_safely returns
run_sync_returns ==
    /\ app = "app"
    /\ apc = "first"
    /\ \E o \in Outputs :
        /\ outcome' = [kind |-> "return", val |-> o]
        /\ EndCall(Len(calls), "return", o)
    /\ apc' = "ret"
    /\ UNCHANGED <<pc, tpc, box, results, args, status, runs, wvars, pvars, app, evars>>

\* the first Runner.run_sync of _run_agent_safely raises
run_sync_raises ==
    /\ app = "app"
    /\ apc = "first"
    /\ \E e \in Errors :
        /\ EndCall(Len(calls), "raise", e)
        /\ IF retry_in_thread(e)
           THEN /\ box' = EmptyBox
                /\ apc' = "spawn"
                /\ UNCHANGED outcome
           ELSE /\ outcome' = [kind |-> "raise", val |-> e]
                /\ apc' = "ret"
                /\ UNCHANGED box
    /\ UNCHANGED <<pc, tpc, results, args, status, runs, wvars, pvars, app, evars>>

\* thread.start(), after which the caller waits in thread.join()
thread_start ==
    /\ app = "app"
    /\ apc = "spawn"
    /\ tpc' = "ready"
    /\ apc' = "joining"
    /\ UNCHANGED <<pc, box, outcome, results, args, calls, inflight, status, runs,
                   wvars, pvars, app, evars>>

\* run_in_thread reaches its Runner.run_sync
run_in_thread ==
    /\ app = "app"
    /\ tpc = "ready"
    /\ RunSync(calls[Len(calls)].stage, "thread", calls[Len(calls)].prompt)
    /\ tpc' = "calling"
    /\ UNCHANGED <<pc, apc, box, outcome, results, args, status, runs, wvars, pvars, app, evars>>

\* the helper thread's call returns
run_in_thread_returns ==
    /\ app = "app"
    /\ tpc = "calling"
    /\ \E o \in Outputs :
        /\ box' = [box EXCEPT !.output = o]
        /\ EndCall(ThreadCall, "return", o)
    /\ tpc' = "finished"
    /\ UNCHANGED <<pc, apc, outcome, results, args, status, runs, wvars, pvars, app, evars>>

\* the helper thread's call raises
run_in_thread_raises ==
    /\ app = "app"
    /\ tpc = "calling"
    /\ \E e \in Errors :
        /\ box' = [box EXCEPT !.error = e]
        /\ EndCall(ThreadCall, "raise", e)
    /\ tpc' = "finished"
    /\ UNCHANGED <<pc, apc, outcome, results, args, status, runs, wvars, pvars, app, evars>>

\* mutant: after the join the error of the first call is raised again
thread_join_first_error ==
    /\ app = "app"
    /\ apc = "joining"
    /\ thread_joined
    /\ outcome' = calls[Len(calls) - 1].end
    /\ apc' = "ret"
    /\ tpc' = IF tpc = "finished" THEN "none" ELSE tpc
    /\ UNCHANGED <<pc, box, results, args, calls, inflight, status, runs, wvars, pvars, app, evars>>

\* thread.join() returns and _run_agent_safely hands on what the thread left
thread_join ==
    /\ app = "app"
    /\ apc = "joining"
    /\ thread_joined
    /\ outcome' = IF box.error # NONE
                  THEN [kind |-> "raise", val |-> box.error]
                  ELSE [kind |-> "return", val |-> box.output]
    /\ apc' = "ret"
    /\ tpc' = IF tpc = "finished" THEN "none" ELSE tpc
    /\ UNCHANGED <<pc, box, results, args, calls, inflight, status, runs, wvars, pvars, app, evars>>

\* analyze_blog_style ends (with the output or with its except branch) and
\* create_blog_post goes on to the research call
analyze_blog_style ==
    /\ app = "app"
    /\ pc = "style"
    /\ apc = "ret"
    /\ LET style_guide == IF outcome.kind = "return" THEN outcome.val
                          ELSE StyleFailedText(outcome.val)
       IN /\ results' = [results EXCEPT !["style_guide"] = style_guide]
          /\ RunSync("research", "main", research_prompt(args))
    /\ status' = WithStatus(args.cb, status, <<35>>)
    /\ pc' = "research"
    /\ apc' = "first"
    /\ outcome' = NoOutcome
    /\ UNCHANGED <<tpc, box, args, runs, wvars, pvars, app, evars>>

\* mutant: the research is handed to the writer and not put in results
research_done_unstored ==
    /\ app = "app"
    /\ pc = "research"
    /\ apc = "ret"
    /\ outcome.kind = "return"
    /\ UNCHANGED results
    /\ status' = WithStatus(args.cb, status, <<60>>)
    /\ RunSync("writing", "main", writing_prompt(args, results["style_guide"], outcome.val))
    /\ pc' = "writing"
    /\ apc' = "first"
    /\ outcome' = NoOutcome
    /\ UNCHANGED <<tpc, box, args, runs, wvars, pvars, app, evars>>

\* step 2 of create_blog_post has its result; on to the writing call
research_done ==
    /\ app = "app"
    /\ pc = "research"
    /\ apc = "ret"
    /\ outcome.kind = "return"
    /\ results' = [results EXCEPT !["research"] = outcome.val]
    /\ status' = WithStatus(args.cb, status, <<60>>)
    /\ RunSync("writing", "main", writing_prompt(args, results["style_guide"], outcome.val))
    /\ pc' = "writing"
    /\ apc' = "first"
    /\ outcome' = NoOutcome
    /\ UNCHANGED <<tpc, box, args, runs, wvars, pvars, app, evars>>

\* mutant: the editing step reports the progress of the writing step again
writing_done_reports_60 ==
    /\ app = "app"
    /\ pc = "writing"
    /\ apc = "ret"
    /\ outcome.kind = "return"
    /\ results' = [results EXCEPT !["draft"] = outcome.val]
    /\ status' = WithStatus(args.cb, status, <<60>>)
    /\ RunSync("editing", "main", editing_prompt(args, results["style_guide"], outcome.val))
    /\ pc' = "editing"
    /\ apc' = "first"
    /\ outcome' = NoOutcome
    /\ UNCHANGED <<tpc, box, args, runs, wvars, pvars, app, evars>>

\* step 3 of create_blog_post has its result; on to the editing call
writing_done ==
    /\ app = "app"
    /\ pc = "writing"
    /\ apc = "ret"
    /\ outcome.kind = "return"
    /\ results' = [results EXCEPT !["draft"] = outcome.val]
    /\ status' = WithStatus(args.cb, status, <<85>>)
    /\ RunSync("editing", "main", editing_prompt(args, results["style_guide"], outcome.val))
    /\ pc' = "editing"
    /\ apc' = "first"
    /\ outcome' = NoOutcome
    /\ UNCHANGED <<tpc, box, args, runs, wvars, pvars, app, evars>>

\* mutant: the edited post is stored over the draft
editing_done_stores_draft ==
    /\ app = "app"
    /\ pc = "editing"
    /\ apc = "ret"
    /\ outcome.kind = "return"
    /\ results' = [results EXCEPT !["draft"] = outcome.val]
    /\ status' = WithStatus(args.cb, status, <<100>>)
    /\ pc' = "done"
    /\ apc' = "idle"
    /\ outcome' = NoOutcome
    /\ UNCHANGED <<tpc, box, args, calls, inflight, runs, wvars, pvars, app, evars>>

\* step 4 of create_blog_post has its result; results is returned
editing_done ==
    /\ app = "app"
    /\ pc = "editing"
    /\ apc = "ret"
    /\ outcome.kind = "return"
    /\ results' = [results EXCEPT !["final"] = outcome.val]
    /\ status' = WithStatus(args.cb, status, <<100>>)
    /\ pc' = "done"
    /\ apc' = "idle"
    /\ outcome' = NoOutcome
    /\ UNCHANGED <<tpc, box, args, calls, inflight, runs, wvars, pvars, app, evars>>

\* mutant: the except branch returns a fresh dict that holds only "error"
create_blog_post_except_discards ==
    /\ app = "app"
    /\ pc \in {"research", "writing", "editing"}
    /\ apc = "ret"
    /\ outcome.kind = "raise"
    /\ status' = WithStatus(args.cb, status, <<0>>)
    /\ results' = [EmptyResults EXCEPT !["error"] = outcome.val]
    /\ pc' = "done"
    /\ apc' = "idle"
    /\ outcome' = NoOutcome
    /\ UNCHANGED <<tpc, box, args, calls, inflight, runs, wvars, pvars, app, evars>>

\* the except branch of create_blog_post; results is returned with "error"
create_blog_post_except ==
    /\ app = "app"
    /\ pc \in {"research", "writing", "editing"}
    /\ apc = "ret"
    /\ outcome.kind = "raise"
    /\ status' = WithStatus(args.cb, status, <<0>>)
    /\ results' = [results EXCEPT !["error"] = outcome.val]
    /\ pc' = "done"
    /\ apc' = "idle"
    /\ outcome' = NoOutcome
    /\ UNCHANGED <<tpc, box, args, calls, inflight, runs, wvars, pvars, app, evars>>

NoArgs == [topic |-> NONE, reference_blog |-> NONE, requirements |-> NONE, cb |-> FALSE]

OInit ==
    /\ pc = "idle"
    /\ apc = "idle"
    /\ tpc = "none"
    /\ box = EmptyBox
    /\ outcome = NoOutcome
    /\ results = EmptyResults
    /\ args = NoArgs
    /\ calls = <<>>
    /\ inflight = {}
    /\ status = <<>>
    /\ runs = 0
    /\ retried = FALSE

(***************************************************************************)
(* zzz_pg_openai_workflow.py (run_workflow) and app_v2_json.py             *)
(* (call_workflow)                                                         *)
(***************************************************************************)

\* the agents list of call_workflow, which is the order of run_workflow
AgentOrder == <<"text_to_json", "writing_style", "research", "writer",
                "seo_analyzer", "internal_links", "editor">>
Agents == {AgentOrder[i] : i \in 1..Len(AgentOrder)}
AgentIndex(a) == CHOOSE i \in 1..Len(AgentOrder) : AgentOrder[i] = a

\* the fields of TextToJsonSchema, assigned to state after text_to_json
InputFields == {"existing_blog_posts_to_avoid", "high_performing_pages", "root_blog_url",
                "seo_keywords", "target_product_urls", "topics", "writing_requirements"}
\* the fields of state that hold a stage's output
OutputFields == {"writing_style", "research", "writer_draft", "seo_analyze_first_pass",
                 "internal_links"}
\* the nested dicts state["response_schema"] and state["global"]
SchemaFields == {"response_schema.existing_blog_posts_to_avoid",
                 "response_schema.high_performing_pages", "response_schema.root_blog_url",
                 "response_schema.seo_keywords", "response_schema.target_product_urls",
                 "response_schema.topic"}
GlobalFields == {"global.existing_blog_posts_to_avoid", "global.high_performing_pages",
                 "global.root_blog_url", "global.seo_keywords",
                 "global.target_product_urls", "global.topic"}
ListFields == {"existing_blog_posts_to_avoid", "high_performing_pages", "seo_keywords",
               "target_product_urls", "topics",
               "response_schema.existing_blog_posts_to_avoid",
               "response_schema.high_performing_pages", "response_schema.seo_keywords",
               "response_schema.target_product_urls",
               "global.existing_blog_posts_to_avoid", "global.high_performing_pages",
               "global.seo_keywords", "global.target_product_urls"}
StatePaths == InputFields \cup OutputFields \cup SchemaFields \cup GlobalFields
                \cup {"edit_output"}

\* the dict literal that run_workflow starts from
InitialState ==
    [p \in StatePaths |->
        IF p \in ListFields THEN <<>>
        ELSE IF p \in SchemaFields \cup GlobalFields THEN ""
        ELSE NONE]

\* what the text_to_json agent may answer (TextToJsonSchema)
ParsedInputs ==
    [existing_blog_posts_to_avoid : {<<>>, <<"Old post">>},
     high_performing_pages : {<<>>, <<"https://blog.example/top">>},
     root_blog_url : {"https://blog.example"},
     seo_keywords : {<<>>, <<"safety knife">>},
     target_product_urls : {<<"https://shop.example/knife">>},
     topics : {<<"safety cutters">>},
     writing_requirements : {"", "include FAQ section"}]

JsonInputs == {"{\"topics\": [\"safety cutters\"]}", "{}"}

NoResult == [success |-> FALSE, data |-> NONE, error |-> NONE]

\* f"Workflow failed: {str(e)}"
WorkflowFailedText(e) ==
    CASE e = "There is no current event loop in thread"
            -> "Workflow failed: There is no current event loop in thread"
      [] e = "Event loop is closed" -> "Workflow failed: Event loop is closed"
      [] e = "rate limit exceeded" -> "Workflow failed: rate limit exceeded"
      [] OTHER -> "Workflow failed: ?"

\* state[p] = f[p] for every p in DOMAIN f, done by the stage `agent`
Assign(f, agent) ==
    /\ state' = [p \in StatePaths |-> IF p \in DOMAIN f THEN f[p] ELSE state[p]]
    /\ writes' = [p \in StatePaths |-> IF p \in DOMAIN f THEN writes[p] + 1 ELSE writes[p]]
    /\ writer' = [p \in StatePaths |->
                    IF p \in DOMAIN f THEN AgentIndex(agent) ELSE writer[p]]

\* the context object of a stage: the paths of state it is built from
Context(st, paths) == [p \in paths |-> st[p]]

WritingStyleContext == {"root_blog_url", "high_performing_pages"}
ResearchContext == {"topics", "writing_requirements", "target_product_urls"}
WriterContext == {"topics", "writing_style", "research", "writing_requirements",
                  "root_blog_url"}
\* mutant: the SEO analyzer is also handed the keywords
SeoAnalyzerContextWithKeywords == {"writer_draft", "topics", "root_blog_url", "seo_keywords"}
SeoAnalyzerContext == {"writer_draft", "topics", "root_blog_url"}
InternalLinksContext == {"writer_draft", "response_schema.root_blog_url",
                         "seo_analyze_first_pass", "response_schema.topic"}
EditorContext == {"root_blog_url", "writing_style", "seo_analyze_first_pass"}

\* ---- the instructions an agent is given: lines, each the pieces of text it is
\* ---- made of (an empty string formats to no piece, so to an empty line)
FormatStr(text) == IF text = "" THEN <<>> ELSE <<text>>

\* str(list) of a list of strings, as an f-string formats it: "[]" for the empty list
RECURSIVE ReprItems(_)
ReprItems(list) ==
    IF Len(list) = 0 THEN <<>>
    ELSE IF Len(list) = 1 THEN <<"'", list[1], "'">>
    ELSE <<"'", list[1], "'", ", ">> \o ReprItems(Tail(list))
FormatList(list) == <<"[">> \o ReprItems(list) \o <<"]">>

PriorityHeading == <<"PRIORITY: Analyze these specific high-performing posts first:">>
RequirementsHeading == <<"Requirements:">>
ProductHeading == <<"PRODUCT/PAGE TO PROMOTE: ">>

\* mutant: the section of the high-performing pages is left out when there are none
writing_style_instructions_elided(ctx) ==
    << <<"Analyze the writing style of ">> \o FormatStr(ctx["root_blog_url"]) \o <<".">>,
       <<>> >>
    \o (IF ctx["high_performing_pages"] = <<>> THEN << >>
        ELSE << PriorityHeading, FormatList(ctx["high_performing_pages"]), <<>>,
                <<"These pages should be the PRIMARY examples in your style guide.">>,
                <<>> >>)
    \o << <<"Instructions:">> >>

writing_style_instructions(ctx) ==
    << <<"Analyze the writing style of ">> \o FormatStr(ctx["root_blog_url"]) \o <<".">>,
       <<>>,
       PriorityHeading,
       FormatList(ctx["high_performing_pages"]),
       <<>>,
       <<"These pages should be the PRIMARY examples in your style guide.">>,
       <<>>,
       <<"Instructions:">> >>

research_instructions(ctx) ==
    << <<"Research the topic: ">> \o FormatList(ctx["topics"]),
       <<>>,
       RequirementsHeading,
       FormatStr(ctx["writing_requirements"]),
       <<>>,
       ProductHeading,
       FormatList(ctx["target_product_urls"]) \o <<"                 ">>,
       <<>>,
       <<"Focus your research on:">> >>

\* await Runner.run(agent, ..., context=...) is entered
\* the awaited call (the last of wcalls) has returned, or has raised
Ended(how) == [wcalls EXCEPT ![Len(wcalls)].ended = how]

\* the awaited call has returned and await Runner.run(agent, ..., context=ctx) is entered;
\* local is what the context takes from a local variable instead of state
RunnerRun(agent, ctx, local) ==
    wcalls' = Append(Ended("return"),
                     [agent |-> agent, ctx |-> ctx, local |-> local, ended |-> "none"])

\* call_workflow is called: run_workflow builds state and awaits text_to_json
call_workflow ==
    /\ app = "app_v2_json"
    /\ wpc \in {"idle", "done"}
    /\ wruns < MaxRuns
    /\ \E j \in JsonInputs :
        /\ winput' = j
        /\ wcalls' = <<[agent |-> "text_to_json", ctx |-> Context(InitialState, {}),
                        local |-> j, ended |-> "none"]>>
    /\ state' = InitialState
    /\ writes' = [p \in StatePaths |-> 0]
    /\ writer' = [p \in StatePaths |-> 0]
    /\ wouts' = <<>>
    /\ wresult' = NoResult
    /\ wpc' = "text_to_json"
    /\ wruns' = wruns + 1
    /\ retried' = (wpc = "done" /\ ~wresult.success)
    /\ UNCHANGED <<app, ovars, pvars, kvars, hvars>>

\* text_to_json answers: its seven fields go to state; writing_style is awaited
text_to_json_returns ==
    /\ app = "app_v2_json"
    /\ wpc = "text_to_json"
    /\ \E parsed \in ParsedInputs :
        /\ Assign(parsed, "text_to_json")
        /\ wouts' = Append(wouts, parsed)
    /\ RunnerRun("writing_style", Context(state', WritingStyleContext), NONE)
    /\ wpc' = "writing_style"
    /\ UNCHANGED <<winput, wresult, wruns, ovars, pvars, app, evars>>

writing_style_assigns(o) == [p \in {"writing_style"} |-> o]
research_assigns(o) == [p \in {"research"} |-> o]
writer_assigns(o) == [p \in {"writer_draft"} |-> o]
seo_analyzer_assigns(o) == [p \in {"seo_analyze_first_pass"} |-> o]
\* mutant: the linked post is also written back over the writer's draft
internal_links_assigns_draft(o) == [p \in {"internal_links", "writer_draft"} |-> o]

internal_links_assigns(o) == [p \in {"internal_links"} |-> o]

\* writing_style answers; research is awaited
writing_style_returns ==
    /\ app = "app_v2_json"
    /\ wpc = "writing_style"
    /\ \E o \in Outputs :
        /\ Assign(writing_style_assigns(o), "writing_style")
        /\ wouts' = Append(wouts, o)
    /\ RunnerRun("research", Context(state', ResearchContext), NONE)
    /\ wpc' = "research"
    /\ UNCHANGED <<winput, wresult, wruns, ovars, pvars, app, evars>>

\* research answers; writer is awaited
research_returns ==
    /\ app = "app_v2_json"
    /\ wpc = "research"
    /\ \E o \in Outputs :
        /\ Assign(research_assigns(o), "research")
        /\ wouts' = Append(wouts, o)
    /\ RunnerRun("writer", Context(state', WriterContext), NONE)
    /\ wpc' = "writer"
    /\ UNCHANGED <<winput, wresult, wruns, ovars, pvars, app, evars>>

\* writer answers; seo_analyzer is awaited
writer_returns ==
    /\ app = "app_v2_json"
    /\ wpc = "writer"
    /\ \E o \in Outputs :
        /\ Assign(writer_assigns(o), "writer")
        /\ wouts' = Append(wouts, o)
    /\ RunnerRun("seo_analyzer", Context(state', SeoAnalyzerContext), NONE)
    /\ wpc' = "seo_analyzer"
    /\ UNCHANGED <<winput, wresult, wruns, ovars, pvars, app, evars>>

\* mutant: the internal_links stage is skipped
seo_analyzer_returns_skips_links ==
    /\ app = "app_v2_json"
    /\ wpc = "seo_analyzer"
    /\ \E o \in Outputs :
        /\ Assign(seo_analyzer_assigns(o), "seo_analyzer")
        /\ wouts' = Append(wouts, o)
        /\ RunnerRun("editor", Context(state', EditorContext), o)
    /\ wpc' = "editor"
    /\ UNCHANGED <<winput, wresult, wruns, ovars, pvars, app, evars>>

\* seo_analyzer answers; internal_links is awaited
seo_analyzer_returns ==
    /\ app = "app_v2_json"
    /\ wpc = "seo_analyzer"
    /\ \E o \in Outputs :
        /\ Assign(seo_analyzer_assigns(o), "seo_analyzer")
        /\ wouts' = Append(wouts, o)
    /\ RunnerRun("internal_links", Context(state', InternalLinksContext), NONE)
    /\ wpc' = "internal_links"
    /\ UNCHANGED <<winput, wresult, wruns, ovars, pvars, app, evars>>

\* mutant: the editor is handed the writer's draft in place of the linked post
internal_links_returns_passes_draft ==
    /\ app = "app_v2_json"
    /\ wpc = "internal_links"
    /\ \E o \in Outputs :
        /\ Assign(internal_links_assigns(o), "internal_links")
        /\ wouts' = Append(wouts, o)
        /\ RunnerRun("editor", Context(state', EditorContext), state["writer_draft"])
    /\ wpc' = "editor"
    /\ UNCHANGED <<winput, wresult, wruns, ovars, pvars, app, evars>>

\* internal_links answers; editor is awaited, with the answer itself as the draft
internal_links_returns ==
    /\ app = "app_v2_json"
    /\ wpc = "internal_links"
    /\ \E o \in Outputs :
        /\ Assign(internal_links_assigns(o), "internal_links")
        /\ wouts' = Append(wouts, o)
        /\ RunnerRun("editor", Context(state', EditorContext), o)
    /\ wpc' = "editor"
    /\ UNCHANGED <<winput, wresult, wruns, ovars, pvars, app, evars>>

\* editor answers: run_workflow returns editor_result and call_workflow wraps it
editor_returns ==
    /\ app = "app_v2_json"
    /\ wpc = "editor"
    /\ \E o \in Outputs :
        /\ wouts' = Append(wouts, o)
        /\ wresult' = [success |-> TRUE, data |-> o, error |-> NONE]
    /\ wcalls' = Ended("return")
    /\ wpc' = "done"
    /\ UNCHANGED <<state, writes, writer, winput, wruns, ovars, pvars, app, evars>>

\* the awaited Runner.run raises: the except branch of call_workflow
call_workflow_except ==
    /\ app = "app_v2_json"
    /\ wpc \in Agents
    /\ \E e \in Errors :
        wresult' = [success |-> FALSE, data |-> NONE, error |-> WorkflowFailedText(e)]
    /\ wcalls' = Ended("raise")
    /\ wpc' = "done"
    /\ UNCHANGED <<state, writes, writer, wouts, winput, wruns, ovars, pvars, app, evars>>

WInit ==
    /\ wpc = "idle"
    /\ state = InitialState
    /\ writes = [p \in StatePaths |-> 0]
    /\ writer = [p \in StatePaths |-> 0]
    /\ wcalls = <<>>
    /\ wouts = <<>>
    /\ winput = NONE
    /\ wresult = NoResult
    /\ wruns = 0

(***************************************************************************)
(* custom_agents/topic_idea_agent.py: the prompt builders.  A prompt is    *)
(* the sequence of its tokens: [k |-> kind, v |-> number], where v is the   *)
(* keyword or title of a "kw" or "bullet" token, the N of an "overflow"    *)
(* token "(and N more...)", and 0 for fixed text.                          *)
(***************************************************************************)
Tok(k, v) == [k |-> k, v |-> v]
NL == Tok("nl", 0)

Min(a, b) == IF a < b THEN a ELSE b

\* an Optional[List]: None, or a list
None == [given |-> FALSE, items |-> <<>>]
Some(items) == [given |-> TRUE, items |-> items]

\* the lists the builders are tried on: every length up to cap + MaxOverflow, with
\* distinct items in rising and in falling order, and with one item repeated
ListsUpTo(cap) ==
    {[i \in 1..n |-> i] : n \in 0..(cap + MaxOverflow)}
    \cup {[i \in 1..n |-> n + 1 - i] : n \in 0..(cap + MaxOverflow)}
    \cup {[i \in 1..n |-> 7] : n \in 0..(cap + MaxOverflow)}

\* a product target: None, the empty string, or a description of one word
ProductInputs == {None, Some(<<>>), Some(<<1>>)}

KeywordInputs == {None} \cup {Some(l) : l \in ListsUpTo(MAX_KEYWORDS)}
TopicInputs == {None} \cup {Some(l) : l \in ListsUpTo(MAX_EXISTING_TOPICS)}

\* sep.join(tokens)
RECURSIVE Join(_, _)
Join(toks, sep) ==
    IF Len(toks) = 0 THEN <<>>
    ELSE IF Len(toks) = 1 THEN <<toks[1]>>
    ELSE <<toks[1], sep>> \o Join(Tail(toks), sep)

\* mutant: the keyword list is not cut
keywords_to_use_all(target) == target

\* target_keywords[:Config.MAX_KEYWORDS]
keywords_to_use(target) == SubSeq(target, 1, Min(Len(target), MAX_KEYWORDS))

build_keyword_context(target) ==
    IF ~target.given \/ Len(target.items) = 0 THEN <<>>
    ELSE <<NL, NL, Tok("kw_header", 0), NL, Tok("kw_intro", 0), NL>>
         \o Join([i \in 1..Len(keywords_to_use(target.items)) |->
                    Tok("kw", keywords_to_use(target.items)[i])], Tok("sep", 0))
         \o <<NL>>

\* existing_topics[:Config.MAX_EXISTING_TOPICS]
topics_sample(existing) == SubSeq(existing, 1, Min(Len(existing), MAX_EXISTING_TOPICS))

\* len(existing_topics) - Config.MAX_EXISTING_TOPICS
overflow_count(existing) == Len(existing) - MAX_EXISTING_TOPICS

\* mutant: the note is rendered from a count of zero on
overflow_text_from_zero(count) == IF count >= 0 THEN <<Tok("overflow", count)>> ELSE <<>>

\* f"(and {overflow_count} more...)" if overflow_count > 0 else ""
overflow_text(count) == IF count > 0 THEN <<Tok("overflow", count)>> ELSE <<>>

build_duplication_context(existing) ==
    IF ~existing.given \/ Len(existing.items) = 0 THEN <<>>
    ELSE <<NL, NL, Tok("dup_header", 0), NL>>
         \o Join([i \in 1..Len(topics_sample(existing.items)) |->
                    Tok("bullet", topics_sample(existing.items)[i])], NL)
         \o <<NL>> \o overflow_text(overflow_count(existing.items))
         \o <<NL, NL, Tok("dup_critical", 0), NL>>

NotBuilt == [built |-> FALSE, text |-> <<>>]

\* _build_keyword_context(target_keywords) is called
BuildKeywordContext ==
    /\ app = "app_v2"
    /\ ~keyword_context.built
    /\ keyword_context' = [built |-> TRUE, text |-> build_keyword_context(target_keywords)]
    /\ UNCHANGED <<target_keywords, existing_topics, duplication_context, ovars, wvars, app, evars>>

\* _build_duplication_context(existing_topics) is called
BuildDuplicationContext ==
    /\ app = "app_v2"
    /\ ~duplication_context.built
    /\ duplication_context' =
           [built |-> TRUE, text |-> build_duplication_context(existing_topics)]
    /\ UNCHANGED <<target_keywords, existing_topics, keyword_context, ovars, wvars, app, evars>>

\* mutant: only None is taken for an absent product target
product_given_not_none(product) == product.given

\* the negation of `not product_target`
product_given(product) == product.given /\ Len(product.items) > 0

build_product_context(product) ==
    IF ~product_given(product) THEN <<>>
    ELSE <<NL, NL, Tok("product_header", 0), NL>>
         \o [i \in 1..Len(product.items) |-> Tok("product", product.items[i])]
         \o <<NL, NL, Tok("product_important", 0), NL>>

\* the f-string of _build_prompt around the three context sections
build_prompt(kctx, pctx, dctx) ==
    <<NL, Tok("generate", 0), NL, NL, Tok("preferences", 0), NL>>
    \o kctx \o <<NL>> \o pctx \o <<NL>> \o dctx
    \o <<NL, NL, Tok("instructions", 0), NL, NL, Tok("format", 0), NL, NL,
          Tok("generate_now", 0), NL>>

\* _build_product_context(product_target) is called, after the keyword context
BuildProductContext ==
    /\ app = "app_v2"
    /\ keyword_context.built
    /\ ~product_context.built
    /\ product_context' = [built |-> TRUE, text |-> build_product_context(product_target)]
    /\ UNCHANGED <<product_target, built_prompt, xvars, rvars, fvars, pvars, ovars, wvars, app, retried, hvars>>

\* _build_prompt returns the template filled with the three sections
BuildPrompt ==
    /\ app = "app_v2"
    /\ keyword_context.built /\ product_context.built /\ duplication_context.built
    /\ ~built_prompt.built
    /\ built_prompt' = [built |-> TRUE,
                  text |-> build_prompt(keyword_context.text, product_context.text,
                                        duplication_context.text)]
    /\ UNCHANGED <<product_target, product_context, xvars, rvars, fvars, pvars, ovars, wvars, app, retried, hvars>>

PIdle ==
    /\ target_keywords = None
    /\ existing_topics = None
    /\ keyword_context = NotBuilt
    /\ duplication_context = NotBuilt
    /\ product_target = None
    /\ product_context = NotBuilt
    /\ built_prompt = NotBuilt

(***************************************************************************)
(* custom_agents/topic_idea_agent.py: _parse_topic_ideas.  A line of text  *)
(* is a sequence of characters; a word and a bold label ("**Angle**") are  *)
(* taken as one character each.                                            *)
(***************************************************************************)
Digits == {"1", "2", "3", "4", "5"}
Labels == {"**Angle**", "**Keywords**", "**Rationale**", "**Content Type**"}

\* number of leading characters of line that are in set
RECURSIVE CountLeading(_, _)
CountLeading(line, set) ==
    IF line # <<>> /\ Head(line) \in set THEN 1 + CountLeading(Tail(line), set) ELSE 0

Drop(line, n) == SubSeq(line, n + 1, Len(line))

\* number of trailing spaces of line
RECURSIVE CountTrailing(_)
CountTrailing(line) ==
    IF line # <<>> /\ line[Len(line)] = " "
    THEN 1 + CountTrailing(SubSeq(line, 1, Len(line) - 1)) ELSE 0

\* str.strip()
Strip(line) ==
    SubSeq(line, CountLeading(line, {" "}) + 1, Len(line) - CountTrailing(line))

NoMatch == [matched |-> FALSE, group |-> <<>>]

\* \s*\d+\.\s*(.+)$ matched at the start of rest: the group is what follows the
\* spaces after the dot, or the last of these spaces when nothing follows them
match_number_title(rest) ==
    LET r1 == Drop(rest, CountLeading(rest, {" "}))
        d == CountLeading(r1, Digits)
        r2 == Drop(r1, d)
        r3 == Drop(r2, 1)
        r4 == Drop(r3, CountLeading(r3, {" "}))
    IN  IF d = 0 \/ r2 = <<>> \/ Head(r2) # "." \/ r3 = <<>> THEN NoMatch
        ELSE IF r4 # <<>> THEN [matched |-> TRUE, group |-> r4]
        ELSE [matched |-> TRUE, group |-> <<" ">>]

\* mutant: the pattern asks for the two hashes
title_match_two_hashes(line) ==
    IF CountLeading(line, {"#"}) = 2 THEN match_number_title(Drop(line, 2)) ELSE NoMatch

\* re.match(r'^#{0,2}\s*\d+\.\s*(.+)$', line): at most two of the leading hashes
\* are taken by #{0,2}, and a third one matches nothing of what follows
title_match(line) ==
    match_number_title(Drop(line, Min(CountLeading(line, {"#"}), 2)))

\* line.startswith(prefix)
StartsWith(line, prefix) ==
    Len(line) >= Len(prefix) /\ SubSeq(line, 1, Len(prefix)) = prefix

\* mutant: the label is looked for without its colon
has_label_without_colon(line, label) ==
    StartsWith(line, <<"-", " ", label>>) \/ StartsWith(line, <<label>>)

\* line.startswith('- **Angle**:') or line.startswith('**Angle**:')
has_label(line, label) ==
    StartsWith(line, <<"-", " ", label, ":">>) \/ StartsWith(line, <<label, ":">>)

\* number of characters of line before the first sep (all of them when it has none)
RECURSIVE CountBefore(_, _)
CountBefore(line, sep) ==
    IF line # <<>> /\ Head(line) # sep THEN 1 + CountBefore(Tail(line), sep) ELSE 0

\* line.split(sep)
RECURSIVE Split(_, _)
Split(line, sep) ==
    IF CountBefore(line, sep) = Len(line) THEN <<line>>
    ELSE <<SubSeq(line, 1, CountBefore(line, sep))>>
         \o Split(Drop(line, CountBefore(line, sep) + 1), sep)

\* line.split(':', 1)[1].strip(); an IndexError when the line has no colon
value_of(line) ==
    IF Len(Split(line, ":")) < 2 THEN [raised |-> TRUE, value |-> <<>>]
    ELSE [raised |-> FALSE,
          value |-> Strip(Drop(line, Len(Split(line, ":")[1]) + 1))]

\* [kw.strip() for kw in keywords_str.split(',')]
keywords_of(keywords_str) ==
    [i \in 1..Len(Split(keywords_str, ",")) |-> Strip(Split(keywords_str, ",")[i])]

NoTopic ==
    [open |-> FALSE, title |-> <<>>, angle |-> <<>>, keywords |-> <<>>,
     rationale |-> <<>>, content_type |-> <<>>]

\* the dict a title line starts
NewTopic(title) == [NoTopic EXCEPT !.open = TRUE, !.title = title]

\* a record of the result list
TopicRecord(t) ==
    [title |-> t.title, angle |-> t.angle, keywords |-> t.keywords,
     rationale |-> t.rationale, content_type |-> t.content_type]

\* mutant: the topic that is open is never appended
close_topic_never(list, current) == list

\* if current_topic and current_topic.get('title'): topics.append(current_topic)
close_topic(list, current) ==
    IF current.open /\ current.title # <<>> THEN Append(list, TopicRecord(current))
    ELSE list

\* one turn of the loop over the lines; st is [list, current, raised]
parse_line(st, raw_line) ==
    LET line == Strip(raw_line)
        m == title_match(line)
        v == value_of(line)
        set(field, value) ==
            IF v.raised THEN [st EXCEPT !.raised = TRUE]
            ELSE [st EXCEPT !.current = [st.current EXCEPT ![field] = value]]
    IN  IF st.raised THEN st
        ELSE IF m.matched
        THEN [st EXCEPT !.list = close_topic(st.list, st.current),
                        !.current = NewTopic(Strip(m.group))]
        ELSE IF ~st.current.open THEN st
        ELSE IF has_label(line, "**Angle**") THEN set("angle", v.value)
        ELSE IF has_label(line, "**Keywords**") THEN set("keywords", keywords_of(v.value))
        ELSE IF has_label(line, "**Rationale**") THEN set("rationale", v.value)
        ELSE IF has_label(line, "**Content Type**") THEN set("content_type", v.value)
        ELSE st

RECURSIVE parse_lines(_, _)
parse_lines(st, lines) ==
    IF lines = <<>> THEN st ELSE parse_lines(parse_line(st, Head(lines)), Tail(lines))

\* _parse_topic_ideas(raw_output): the list it returns, or that it raised
parse_topic_ideas(lines) ==
    LET st == parse_lines([list |-> <<>>, current |-> NoTopic, raised |-> FALSE], lines)
    IN  [done |-> TRUE, raised |-> st.raised,
         list |-> IF st.raised THEN <<>> ELSE close_topic(st.list, st.current)]

NotParsed == [done |-> FALSE, raised |-> FALSE, list |-> <<>>]

\* ', '.join(keywords)
RECURSIVE JoinComma(_)
JoinComma(keywords) ==
    IF Len(keywords) = 0 THEN <<>>
    ELSE IF Len(keywords) = 1 THEN keywords[1]
    ELSE keywords[1] \o <<",", " ">> \o JoinComma(Tail(keywords))

Decimal(n) == <<(<<"1", "2", "3", "4", "5">>)[n]>>

\* the records written in the format the prompt asks the model for:
\* "## 1. title", "- **Angle**: angle", "- **Keywords**: k1, k2", ...
RECURSIVE format_topics(_, _)
format_topics(list, n) ==
    IF n > Len(list) THEN <<>>
    ELSE << <<"#", "#", " ">> \o Decimal(n) \o <<".", " ">> \o list[n].title,
            <<"-", " ", "**Angle**", ":", " ">> \o list[n].angle,
            <<"-", " ", "**Keywords**", ":", " ">> \o JoinComma(list[n].keywords),
            <<"-", " ", "**Rationale**", ":", " ">> \o list[n].rationale,
            <<"-", " ", "**Content Type**", ":", " ">> \o list[n].content_type >>
         \o format_topics(list, n + 1)

\* the Markdown download of app_v2.py: the colon of a label is inside the bold
RECURSIVE md_content(_, _)
md_content(list, n) ==
    IF n > Len(list) THEN <<>>
    ELSE << <<"#", "#", " ">> \o Decimal(n) \o <<".", " ">> \o list[n].title,
            <<>>,
            <<"-", " ", "**Angle:**", " ">> \o list[n].angle,
            <<"-", " ", "**Keywords:**", " ">> \o JoinComma(list[n].keywords),
            <<"-", " ", "**Rationale:**", " ">> \o list[n].rationale,
            <<"-", " ", "**Content Type:**", " ">> \o list[n].content_type,
            <<>> >>
         \o md_content(list, n + 1)

\* ---- what the model may answer: a line is a heading, a labelled field or
\* ---- some other text, written in one of the styles the parser provides for
Heading(style, num, title) ==
    [kind |-> "heading", style |-> style, num |-> num, label |-> "", text |-> title,
     list |-> <<>>]
Field(style, label, value) ==
    [kind |-> "field", style |-> style, num |-> <<>>, label |-> label, text |-> value,
     list |-> <<>>]
KeywordsField(style, keywords) ==
    [kind |-> "field", style |-> style, num |-> <<>>, label |-> "**Keywords**",
     text |-> <<>>, list |-> keywords]
Other(style, line) ==
    [kind |-> "other", style |-> style, num |-> <<>>, label |-> "", text |-> line,
     list |-> <<>>]

ConventionLines ==
    {Heading("##", <<"1">>, <<"alpha">>),
     Heading("", <<"1", "2">>, <<"alpha", ":", " ", "beta">>),
     Heading("indent", <<"2">>, <<"2", ".", " ", "alpha">>),
     Field("-", "**Angle**", <<"alpha">>),
     Field("", "**Angle**", <<"alpha", ":", " ", "beta">>),
     Field("indent", "**Angle**", <<>>),
     KeywordsField("-", << <<"alpha">>, <<"beta", " ", "alpha">> >>),
     Field("-", "**Rationale**", <<"beta">>),
     Field("", "**Content Type**", <<"alpha">>),
     Other("prose", <<>>),
     Other("prose", <<"alpha", " ", "beta">>)}

\* a Keywords line with nothing after the label, and lines that only look like
\* a heading or a field
OtherLines ==
    {KeywordsField("-", <<>>),
     Other("look-alike", <<"#", "#", "#", " ", "1", ".", " ", "alpha">>),
     Other("look-alike", <<"1", ".">>),
     Other("look-alike", <<"-", " ", "**Angle:**", " ", "alpha">>),
     Other("look-alike", <<"-", " ", "**Angle**", " ", "alpha">>)}

Lines == ConventionLines \cup OtherLines

\* the text of a line: "## 1. title", "1. title" or " # 1.  title " for a heading,
\* "- **Label**: value", "**Label**: value" or "  - **Label**: value " for a field
Render(item) ==
    LET value == IF item.label = "**Keywords**" THEN JoinComma(item.list) ELSE item.text
    IN  CASE item.kind = "heading" /\ item.style = "##"
                -> <<"#", "#", " ">> \o item.num \o <<".", " ">> \o item.text
          [] item.kind = "heading" /\ item.style = "indent"
                -> <<" ", "#", " ">> \o item.num \o <<".", " ", " ">> \o item.text \o <<" ">>
          [] item.kind = "heading" -> item.num \o <<".", " ">> \o item.text
          [] item.kind = "field" /\ item.style = "-"
                -> <<"-", " ", item.label, ":", " ">> \o value
          [] item.kind = "field" /\ item.style = "indent"
                -> <<" ", " ", "-", " ", item.label, ":", " ">> \o value \o <<" ">>
          [] item.kind = "field" -> <<item.label, ":", " ">> \o value
          [] OTHER -> item.text

\* the text of an answer, as raw_output.split('\n') gives it
RenderAll(items) == [i \in 1..Len(items) |-> Render(items[i])]

\* the answers of up to MaxLines lines
Docs == UNION {[1..n -> Lines] : n \in 0..MaxLines}

NotWritten == [done |-> FALSE, by |-> "", text |-> <<>>]

\* generate() hands the model's answer to _parse_topic_ideas
ParseTopicIdeas ==
    /\ app = "app_v2"
    /\ ~topics.done
    /\ topics' = parse_topic_ideas(raw_output)
    /\ UNCHANGED <<doc, raw_output, rewritten, reparsed, qvars, rvars, fvars, pvars, ovars, wvars, app, retried, hvars>>

\* the records are written out in the format of the prompt
FormatTopics ==
    /\ app = "app_v2"
    /\ topics.done /\ ~topics.raised /\ ~rewritten.done
    /\ rewritten' = [done |-> TRUE, by |-> "format", text |-> format_topics(topics.list, 1)]
    /\ UNCHANGED <<doc, raw_output, topics, reparsed, qvars, rvars, fvars, pvars, ovars, wvars, app, retried, hvars>>

\* the records are written out by the Markdown download
DownloadMarkdown ==
    /\ app = "app_v2"
    /\ topics.done /\ ~topics.raised /\ ~rewritten.done
    /\ rewritten' = [done |-> TRUE, by |-> "md_content",
                     text |-> << <<"#", " ", "Generated Topic Ideas">>, <<>> >>
                              \o md_content(topics.list, 1)]
    /\ UNCHANGED <<doc, raw_output, topics, reparsed, qvars, rvars, fvars, pvars, ovars, wvars, app, retried, hvars>>

\* the text written out is parsed again
Reparse ==
    /\ app = "app_v2"
    /\ rewritten.done /\ ~reparsed.done
    /\ reparsed' = parse_topic_ideas(rewritten.text)
    /\ UNCHANGED <<doc, raw_output, topics, rewritten, qvars, rvars, fvars, pvars, ovars, wvars, app, retried, hvars>>

XIdle ==
    /\ doc = <<>>
    /\ raw_output = <<>>
    /\ topics = NotParsed
    /\ rewritten = NotWritten
    /\ reparsed = NotParsed

(***************************************************************************)
(* blog_orchestrator.py: parallel_research.  Every area is submitted to a  *)
(* thread pool; a worker calls Runner.run_sync and its future takes the    *)
(* output or the error of the call.                                        *)
(***************************************************************************)
Areas == {"market", "pricing"}
AreaLists == UNION {[1..n -> Areas] : n \in 0..MaxAreas}

\* the keys of a dict built from these areas, in the order of insertion
RECURSIVE Keys(_)
Keys(areas) ==
    IF areas = <<>> THEN <<>>
    ELSE LET front == SubSeq(areas, 1, Len(areas) - 1)
             last == areas[Len(areas)]
         IN  IF \E i \in 1..Len(front) : front[i] = last THEN Keys(front)
             ELSE Append(Keys(front), last)

\* futures[area] of the dict comprehension: a later submit of the same area
\* replaces the future the dict held for it
future_of(areas, area) ==
    CHOOSE i \in 1..Len(areas) :
        areas[i] = area /\ \A j \in 1..Len(areas) : areas[j] = area => j <= i

Finished(f) == f.st \in {"done", "failed"}

\* mutant: leaving the with block waits only for the futures the dict holds
mapped_workers_finished(futs, areas) ==
    \A k \in 1..Len(Keys(areas)) : Finished(futs[future_of(areas, Keys(areas)[k])])

\* executor.shutdown(wait=True) at the end of the with block: every submitted
\* worker has finished
all_workers_finished(futs, areas) == \A i \in 1..Len(futs) : Finished(futs[i])

NoResearch == [kind |-> "none", val |-> <<>>, error |-> NONE]

\* parallel_research(topic, research_areas) is called: the first comprehension
\* submits research_area(area) for every element of the list
parallel_research ==
    /\ app = "parallel_research"
    /\ rpc = "idle"
    /\ futures' = [i \in 1..Len(research_areas) |->
                     [area |-> research_areas[i], st |-> "pending", val |-> NONE]]
    /\ rpc' = "collecting"
    /\ UNCHANGED <<research_areas, collected, pending_error, rresult,
                   qvars, xvars, fvars, pvars, ovars, wvars, app, retried, hvars>>

\* a pool thread takes a submitted task and enters Runner.run_sync
research_area ==
    /\ app = "parallel_research"
    /\ \E i \in 1..Len(futures) :
        /\ futures[i].st = "pending"
        /\ futures' = [futures EXCEPT ![i].st = "running"]
    /\ UNCHANGED <<research_areas, rpc, collected, pending_error, rresult,
                   qvars, xvars, fvars, pvars, ovars, wvars, app, retried, hvars>>

\* Runner.run_sync returns in a worker: the future holds result.final_output
research_area_returns ==
    /\ app = "parallel_research"
    /\ \E i \in 1..Len(futures), o \in Outputs :
        /\ futures[i].st = "running"
        /\ futures' = [futures EXCEPT ![i].st = "done", ![i].val = o]
    /\ UNCHANGED <<research_areas, rpc, collected, pending_error, rresult,
                   qvars, xvars, fvars, pvars, ovars, wvars, app, retried, hvars>>

\* Runner.run_sync raises in a worker: the future holds the error
research_area_raises ==
    /\ app = "parallel_research"
    /\ \E i \in 1..Len(futures), e \in Errors :
        /\ futures[i].st = "running"
        /\ futures' = [futures EXCEPT ![i].st = "failed", ![i].val = e]
    /\ UNCHANGED <<research_areas, rpc, collected, pending_error, rresult,
                   qvars, xvars, fvars, pvars, ovars, wvars, app, retried, hvars>>

\* the second comprehension: future.result() of the next key of the dict returns
future_result ==
    /\ app = "parallel_research"
    /\ rpc = "collecting"
    /\ Cardinality(DOMAIN collected) < Len(Keys(research_areas))
    /\ LET area == Keys(research_areas)[Cardinality(DOMAIN collected) + 1]
           f == futures[future_of(research_areas, area)]
       IN  /\ f.st = "done"
           /\ collected' = [a \in DOMAIN collected \cup {area} |->
                              IF a = area THEN f.val ELSE collected[a]]
    /\ UNCHANGED <<research_areas, rpc, futures, pending_error, rresult,
                   qvars, xvars, fvars, pvars, ovars, wvars, app, retried, hvars>>

\* future.result() of the next key raises the error of its worker
future_result_raises ==
    /\ app = "parallel_research"
    /\ rpc = "collecting"
    /\ Cardinality(DOMAIN collected) < Len(Keys(research_areas))
    /\ LET area == Keys(research_areas)[Cardinality(DOMAIN collected) + 1]
           f == futures[future_of(research_areas, area)]
       IN  /\ f.st = "failed"
           /\ pending_error' = f.val
    /\ rpc' = "exiting"
    /\ UNCHANGED <<research_areas, futures, collected, rresult,
                   qvars, xvars, fvars, pvars, ovars, wvars, app, retried, hvars>>

\* every key has its value: the with block is left
results_built ==
    /\ app = "parallel_research"
    /\ rpc = "collecting"
    /\ Cardinality(DOMAIN collected) = Len(Keys(research_areas))
    /\ rpc' = "exiting"
    /\ UNCHANGED <<research_areas, futures, collected, pending_error, rresult,
                   qvars, xvars, fvars, pvars, ovars, wvars, app, retried, hvars>>

\* ThreadPoolExecutor.__exit__ has waited for the workers: parallel_research
\* returns results, or the error goes on to the caller
executor_exit ==
    /\ app = "parallel_research"
    /\ rpc = "exiting"
    /\ all_workers_finished(futures, research_areas)
    /\ IF pending_error = NONE
       THEN /\ rresult' = [kind |-> "return", val |-> collected, error |-> NONE]
            /\ rpc' = "returned"
       ELSE /\ rresult' = [kind |-> "raise", val |-> <<>>, error |-> pending_error]
            /\ rpc' = "raised"
    /\ UNCHANGED <<research_areas, futures, collected, pending_error,
                   qvars, xvars, fvars, pvars, ovars, wvars, app, retried, hvars>>

RIdle ==
    /\ research_areas = <<>>
    /\ rpc = "idle"
    /\ futures = <<>>
    /\ collected = <<>>
    /\ pending_error = NONE
    /\ rresult = NoResearch

(***************************************************************************)
(* The Streamlit pages.  One action is one run of the script main(), from  *)
(* the widget values it reads to the end of the page, the pipeline run it  *)
(* starts included; a button that is rendered disabled is never pressed.   *)
(***************************************************************************)
ApiKeys == {"", "sk-test"}
TopicTexts == {"", "  ", "Remote Work"}
BlogTexts == {"", "ExampleBlog.com"}
\* the JSON field: empty, blank, cut short, and the well-formed texts of JsonInputs
JsonTexts == {"", "  ", "{\"topics\": [\"safety cutters\"]"} \cup JsonInputs

\* not text.strip()
Blank(text) == text \in {"", "  "}

\* json.loads(json_text) returns, or raises JSONDecodeError
json_loads(json_text) ==
    IF json_text \in JsonInputs THEN [ok |-> TRUE, error |-> NONE]
    ELSE [ok |-> FALSE, error |-> "Expecting ',' delimiter: line 1 column 29 (char 28)"]

\* validate_json(json_text): (is_valid, error_msg)
validate_json(json_text) ==
    IF json_text = "" \/ Blank(json_text)
    THEN [is_valid |-> FALSE, error_msg |-> "JSON input is empty"]
    ELSE IF json_loads(json_text).ok THEN [is_valid |-> TRUE, error_msg |-> ""]
    ELSE [is_valid |-> FALSE,
          error_msg |-> "Invalid JSON: Expecting ',' delimiter: line 1 column 29 (char 28)"]

\* mutant: the button looks only at the reference blog
generate_disabled_ignores_key(key, reference_blog) == Blank(reference_blog)

\* generate_disabled = not api_key or not reference_blog.strip()
generate_disabled(key, reference_blog) == key = "" \/ Blank(reference_blog)

\* submit_disabled = not api_key or not json_input.strip()
submit_disabled(key, json_input) == key = "" \/ Blank(json_input)

\* mutant: a submit sets the run flag whatever validate_json said
submit_sets_run_flag_always(is_valid) == TRUE

\* the else branch of `if not is_valid` sets run_workflow and workflow_input
submit_sets_run_flag(is_valid) == is_valid

\* what a pipeline run hands to the page: the content, or an error
RunResults ==
    {[success |-> TRUE, data |-> o, error |-> NONE] : o \in Outputs}
    \cup {[success |-> FALSE, data |-> NONE, error |-> e] : e \in Errors}

NoSession == [run |-> FALSE, input |-> NONE, result |-> NONE]
NothingShown == [warning |-> NONE, message |-> NONE, error |-> NONE, content |-> NONE]
Dispatch(key, input) == [key |-> key, input |-> input]

\* st.error(f"An error occurred: {str(e)}") of app.py's except branch
AnErrorOccurred == "An error occurred"

\* mutant: the finally branch leaves the environment as the try block left it
finally_env_kept(env) == env

\* app.py's finally branch: del os.environ["OPENAI_API_KEY"] if it is there
finally_env(env) == NONE

\* one run of app.py's main
app_main ==
    /\ app = "app"
    /\ script_runs < MaxScriptRuns
    /\ \E key \in ApiKeys, topic \in TopicTexts, click \in BOOLEAN, result \in RunResults,
          raised \in BOOLEAN :
        LET generate_button == click /\ key # "" /\ ~Blank(topic)
        IN  /\ api_key' = key
            /\ page' = [text |-> topic,
                        pressed |-> IF generate_button THEN "generate" ELSE "none",
                        started |-> generate_button]
            /\ IF key = ""
               THEN \* st.warning and st.stop()
                    /\ shown' = [NothingShown EXCEPT
                                    !.warning = "Please enter your OpenAI API key to continue"]
                    /\ UNCHANGED <<dispatches, env_key>>
               ELSE IF ~generate_button
               THEN /\ shown' = NothingShown
                    /\ UNCHANGED <<dispatches, env_key>>
               ELSE \* the key is put in the environment; the orchestrator is built and
                    \* run, and either hands back its results or raises (the except
                    \* branch: st.error with the st.info hint); then the finally branch
                    /\ dispatches' = Append(dispatches, Dispatch(key, topic))
                    /\ shown' = IF raised
                                THEN [NothingShown EXCEPT !.error = AnErrorOccurred]
                                ELSE [NothingShown EXCEPT !.error = result.error,
                                                          !.content = result.data]
                    /\ env_key' = finally_env(key)
    /\ script_runs' = script_runs + 1
    /\ UNCHANGED <<session, qvars, xvars, rvars, pvars, ovars, wvars, app, retried, hvars>>

\* one run of app_v2.py's main
app_v2_main ==
    /\ app = "app_v2"
    /\ script_runs < MaxScriptRuns
    /\ \E key \in ApiKeys, reference_blog \in BlogTexts, click \in BOOLEAN,
          result \in RunResults :
        LET pressed == click /\ ~generate_disabled(key, reference_blog)
            run_generation == session.run \/ pressed
            stored == IF run_generation /\ result.success THEN result.data
                      ELSE session.result
        IN  /\ api_key' = key
            /\ page' = [text |-> reference_blog,
                        pressed |-> IF pressed THEN "generate" ELSE "none",
                        started |-> run_generation]
            /\ IF run_generation
               THEN /\ dispatches' = Append(dispatches, Dispatch(key, reference_blog))
                    /\ env_key' = key
               ELSE UNCHANGED <<dispatches, env_key>>
            /\ session' = [run |-> FALSE, input |-> NONE, result |-> stored]
            /\ shown' = [NothingShown EXCEPT
                            !.error = IF run_generation THEN result.error ELSE NONE,
                            !.content = stored]
    /\ script_runs' = script_runs + 1
    /\ UNCHANGED <<qvars, xvars, rvars, pvars, ovars, wvars, app, retried, hvars>>

\* one run of app_v2_json.py's main
app_v2_json_main ==
    /\ app = "app_v2_json"
    /\ script_runs < MaxScriptRuns
    /\ \E key \in ApiKeys, json_input \in JsonTexts,
          click \in {"none", "validate", "submit"}, result \in RunResults :
        LET pressed == IF click = "submit" /\ submit_disabled(key, json_input) THEN "none"
                       ELSE click
            v == validate_json(json_input)
            accepted == pressed = "submit" /\ submit_sets_run_flag(v.is_valid)
            run_workflow == session.run \/ accepted
            workflow_input == IF accepted THEN json_input ELSE session.input
            stored == IF run_workflow /\ result.success THEN result.data
                      ELSE session.result
        IN  /\ api_key' = key
            /\ page' = [text |-> json_input, pressed |-> pressed, started |-> run_workflow]
            /\ IF run_workflow
               THEN /\ dispatches' = Append(dispatches, Dispatch(key, workflow_input))
                    /\ env_key' = key
               ELSE UNCHANGED <<dispatches, env_key>>
            /\ session' = [run |-> FALSE, input |-> workflow_input, result |-> stored]
            /\ shown' = [NothingShown EXCEPT
                            !.message = IF pressed # "none" /\ ~v.is_valid THEN v.error_msg
                                        ELSE NONE,
                            !.error = IF run_workflow /\ ~result.success
                                      THEN WorkflowFailedText(result.error) ELSE NONE,
                            !.content = stored]
    /\ script_runs' = script_runs + 1
    /\ UNCHANGED <<qvars, xvars, rvars, pvars, ovars, wvars, app, retried, hvars>>

\* OPENAI_API_KEY as the process was started: not set, or set in the shell
ShellKeys == {NONE, "sk-shell"}

FIdle ==
    /\ api_key = ""
    /\ page = [text |-> "", pressed |-> "none", started |-> FALSE]
    /\ session = NoSession
    /\ shown = NothingShown
    /\ dispatches = <<>>
    /\ env_key = NONE
    /\ script_runs = 0

(***************************************************************************)
(* call_workflow of app_v2_json.py with its logging handler.  The run of   *)
(* the workflow is the interval between adding the handler and the finally *)
(* branch; log records reach the httpx logger at any time, also after      *)
(* call_workflow has returned (other sessions of the same process).        *)
(***************************************************************************)
MaxRecords == 9

\* the messages of the list agents, by 0-based index
agents ==
    <<"Parsing JSON input...", "Analyzing writing style...", "Researching topic...",
      "Writing blog draft...", "Analyzing SEO...", "Adding internal links...",
      "Final editing...">>

\* agents[i][1] with Python's 0-based index; raised when i is past the end
agents_at(i) ==
    IF i < Len(agents) THEN [raised |-> FALSE, val |-> agents[i + 1]]
    ELSE [raised |-> TRUE, val |-> NONE]

\* int((agent_count[0] / len(agents)) * 100)
progress_of(count) == (count * 100) \div Len(agents)

NothingPlaced == [kind |-> "none", count |-> 0, next |-> NONE]
NoArgsGiven == [status_placeholder |-> FALSE, progress_bar |-> FALSE]

\* mutant: the next agent is looked up for every count up to len(agents)
names_next_agent_upto(count) == count <= Len(agents)

\* if agent_count[0] < len(agents): the branch that names the next agent
names_next_agent(count) == count < Len(agents)

\* call_workflow up to asyncio.run: the handler is added to the httpx logger and
\* the placeholder shows the first agent
add_handler ==
    /\ app = "call_workflow"
    /\ hpc = "idle"
    /\ \E sp \in BOOLEAN, pb \in BOOLEAN :
        /\ hargs' = [status_placeholder |-> sp, progress_bar |-> pb]
        /\ placeholder' = IF sp THEN [kind |-> "starting", count |-> 0, next |-> agents[1]]
                          ELSE NothingPlaced
    /\ handlers' = handlers + 1
    /\ agent_count' = 0
    /\ progress' = <<>>
    /\ index_error' = FALSE
    /\ hpc' = "running"
    /\ UNCHANGED <<records, hresult, app, ovars, wvars, pvars, kvars, retried>>

\* a record "POST https://api.openai.com/v1/responses ... 200 OK" is logged on the
\* httpx logger: StreamlitHandler.emit, when the handler is on the logger
emit ==
    /\ app = "call_workflow"
    /\ hpc # "idle"
    /\ records < MaxRecords
    /\ records' = records + 1
    /\ IF handlers = 0
       THEN UNCHANGED <<agent_count, progress, placeholder, index_error>>
       ELSE LET count == agent_count + 1
            IN  /\ agent_count' = count
                /\ IF count <= Len(agents)
                   THEN /\ progress' = IF hargs.progress_bar
                                       THEN Append(progress, progress_of(count))
                                       ELSE progress
                        /\ IF ~hargs.status_placeholder
                           THEN UNCHANGED <<placeholder, index_error>>
                           ELSE IF names_next_agent(count)
                           THEN /\ index_error' = (index_error \/ agents_at(count).raised)
                                /\ placeholder' =
                                        IF agents_at(count).raised THEN placeholder
                                        ELSE [kind |-> "step", count |-> count,
                                              next |-> agents_at(count).val]
                           ELSE /\ placeholder' = [kind |-> "all", count |-> count,
                                                   next |-> NONE]
                                /\ UNCHANGED index_error
                   ELSE UNCHANGED <<progress, placeholder, index_error>>
    /\ UNCHANGED <<hpc, hargs, handlers, hresult, app, ovars, wvars, pvars, kvars, retried>>

\* a record that is not a successful response is logged: emit does nothing
emit_other ==
    /\ app = "call_workflow"
    /\ hpc # "idle"
    /\ records < MaxRecords
    /\ records' = records + 1
    /\ UNCHANGED <<hpc, hargs, handlers, agent_count, progress, placeholder, index_error,
                   hresult, app, ovars, wvars, pvars, kvars, retried>>

\* mutant: the handler stays on the logger
handler_kept(n) == n

\* httpx_logger.removeHandler(streamlit_handler)
removeHandler(n) == n - 1

\* asyncio.run returns or raises, and call_workflow returns through its finally
\* branch
remove_handler ==
    /\ app = "call_workflow"
    /\ hpc = "running"
    /\ \E result \in RunResults : hresult' = result
    /\ handlers' = removeHandler(handlers)
    /\ hpc' = "returned"
    /\ UNCHANGED <<hargs, agent_count, progress, placeholder, index_error, records,
                   app, ovars, wvars, pvars, kvars, retried>>

HIdle ==
    /\ hpc = "idle"
    /\ hargs = NoArgsGiven
    /\ handlers = 0
    /\ agent_count = 0
    /\ progress = <<>>
    /\ placeholder = NothingPlaced
    /\ index_error = FALSE
    /\ records = 0
    /\ hresult = NoResult

(***************************************************************************)
(* Specifications                                                          *)
(***************************************************************************)

\* a process runs one of the two pipeline front-ends
Init ==
    /\ app \in {"app", "app_v2_json"}
    /\ OInit
    /\ WInit
    /\ PIdle
    /\ XIdle
    /\ RIdle
    /\ FIdle
    /\ HIdle

ONext ==
    \/ create_blog_post
    \/ run_sync_returns
    \/ run_sync_raises
    \/ thread_start
    \/ run_in_thread
    \/ run_in_thread_returns
    \/ run_in_thread_raises
    \/ thread_join
    \/ analyze_blog_style
    \/ research_done
    \/ writing_done
    \/ editing_done
    \/ create_blog_post_except

WNext ==
    \/ call_workflow
    \/ text_to_json_returns
    \/ writing_style_returns
    \/ research_returns
    \/ writer_returns
    \/ seo_analyzer_returns
    \/ internal_links_returns
    \/ editor_returns
    \/ call_workflow_except

Next == ONext \/ WNext

Spec == Init /\ [][Next]_vars

\* the prompt builders, on every input of KeywordInputs and TopicInputs
PromptInit ==
    /\ app = "app_v2"
    /\ OInit
    /\ WInit
    /\ target_keywords \in KeywordInputs
    /\ existing_topics \in TopicInputs
    /\ product_target \in ProductInputs
    /\ keyword_context = NotBuilt
    /\ duplication_context = NotBuilt
    /\ product_context = NotBuilt
    /\ built_prompt = NotBuilt
    /\ XIdle
    /\ RIdle
    /\ FIdle
    /\ HIdle

PromptNext ==
    \/ BuildKeywordContext
    \/ BuildProductContext
    \/ BuildDuplicationContext
    \/ BuildPrompt

SpecPrompt == PromptInit /\ [][PromptNext]_vars

\* the parser of the topic ideas, on every answer of Docs
ParseInit ==
    /\ app = "app_v2"
    /\ OInit
    /\ WInit
    /\ PIdle
    /\ doc \in Docs
    /\ raw_output = RenderAll(doc)
    /\ topics = NotParsed
    /\ rewritten = NotWritten
    /\ reparsed = NotParsed
    /\ RIdle
    /\ FIdle
    /\ HIdle

ParseNext ==
    \/ ParseTopicIdeas
    \/ FormatTopics
    \/ DownloadMarkdown
    \/ Reparse

SpecParse == ParseInit /\ [][ParseNext]_vars

\* parallel_research, on every list of AreaLists
ResearchInit ==
    /\ app = "parallel_research"
    /\ OInit
    /\ WInit
    /\ PIdle
    /\ XIdle
    /\ research_areas \in AreaLists
    /\ rpc = "idle"
    /\ futures = <<>>
    /\ collected = <<>>
    /\ pending_error = NONE
    /\ rresult = NoResearch
    /\ FIdle
    /\ HIdle

ResearchNext ==
    \/ parallel_research
    \/ research_area
    \/ research_area_returns
    \/ research_area_raises
    \/ future_result
    \/ future_result_raises
    \/ results_built
    \/ executor_exit

SpecResearch == ResearchInit /\ [][ResearchNext]_vars

\* a browser session on one of the three pages
FrontInit ==
    /\ app \in {"app", "app_v2", "app_v2_json"}
    /\ OInit
    /\ WInit
    /\ PIdle
    /\ XIdle
    /\ RIdle
    /\ api_key = ""
    /\ page = [text |-> "", pressed |-> "none", started |-> FALSE]
    /\ session = NoSession
    /\ shown = NothingShown
    /\ dispatches = <<>>
    /\ env_key \in ShellKeys
    /\ script_runs = 0
    /\ HIdle

FrontNext ==
    \/ app_main
    \/ app_v2_main
    \/ app_v2_json_main

SpecFront == FrontInit /\ [][FrontNext]_vars

\* call_workflow and the records logged while and after it runs
HandlerInit ==
    /\ app = "call_workflow"
    /\ OInit
    /\ WInit
    /\ PIdle
    /\ XIdle
    /\ RIdle
    /\ FIdle
    /\ HIdle

HandlerNext ==
    \/ add_handler
    \/ emit
    \/ emit_other
    \/ remove_handler

SpecHandler == HandlerInit /\ [][HandlerNext]_vars

(***************************************************************************)
(* Properties of create_blog_post and _run_agent_safely                    *)
(***************************************************************************)

\* call i is the last call made for its stage
LastOfStage(i) == \A j \in 1..Len(calls) : j > i => calls[j].stage # calls[i].stage

\* the model invocation of stage s failed: its last call raised
StageRaised(s) ==
    \E i \in 1..Len(calls) :
        calls[i].stage = s /\ calls[i].end.kind = "raise" /\ LastOfStage(i)

\* the stages for which a call has been issued
StagesCalled == {calls[i].stage : i \in 1..Len(calls)}

\* what stage s left for its field of results: its output, or the text that
\* analyze_blog_style makes of an error
StageValue(s) ==
    LET i == CHOOSE i \in 1..Len(calls) : calls[i].stage = s /\ LastOfStage(i)
    IN IF calls[i].end.kind = "return" THEN calls[i].end.val
       ELSE StyleFailedText(calls[i].end.val)

\* C1: if the model invocation of a stage raises, no call of a later stage is
\* issued in that run; this holds for every stage, the style analysis included.
C1_NoCallAfterFailedStage ==
    \A i \in 1..Len(calls) :
        (calls[i].end.kind = "raise" /\ LastOfStage(i)) => i = Len(calls)

\* C2: when a run in which some stage raised has ended, the result carries the
\* error indicator and no field of a stage after the failing one is populated
\* (create_blog_post: "error" and no later key; call_workflow: success=False
\* and no data).
C2_ErrorIndicatorAndNoLaterField ==
    /\ pc = "done" =>
        \A s \in StagesCalled :
            StageRaised(s) =>
                /\ results["error"] # NONE
                /\ \A t \in StagesCalled :
                    StageIndex(t) > StageIndex(s) => results[StageKey[t]] = NONE
    /\ (wpc = "done" /\ \E i \in 1..Len(wcalls) : wcalls[i].ended = "raise") =>
        (~wresult.success /\ wresult.data = NONE)

C4_NoRetry ==
    /\ \A i, j \in 1..Len(calls) : i < j => calls[i].stage # calls[j].stage
    /\ \A i \in 1..Len(calls) :
        calls[i].end.kind = "raise" =>
            (apc = "ret" /\ i = Len(calls) => outcome = calls[i].end)

\* C4 as amended: the invoker calls the model once, and once more, in a helper
\* thread, exactly when the first call raised an error whose message contains
\* "event loop"; there is no third attempt, and what reaches the caller is the
\* unmodified output or error of the last call made.
C4_RetryOnlyOnEventLoop ==
    /\ \A i \in 1..Len(calls) :
        calls[i].by = "thread" =>
            /\ i > 1
            /\ calls[i - 1].by = "main"
            /\ calls[i - 1].stage = calls[i].stage
            /\ calls[i - 1].end.kind = "raise"
            /\ MentionsEventLoop(calls[i - 1].end.val)
    /\ \A i, j \in 1..Len(calls) :
        (i < j /\ calls[i].stage = calls[j].stage) => (j = i + 1 /\ calls[j].by = "thread")
    /\ \A i \in 1..Len(calls) :
        (calls[i].by = "main" /\ calls[i].end.kind = "raise"
            /\ MentionsEventLoop(calls[i].end.val) /\ pc = "done")
        => (i < Len(calls) /\ calls[i + 1].by = "thread")
    /\ apc = "ret" => outcome = calls[Len(calls)].end

\* C4 witness: a second call was made in the helper thread and has raised, and
\* its error is what _run_agent_safely hands on
C4_Witness ==
    /\ apc = "ret"
    /\ calls[Len(calls)].by = "thread"
    /\ outcome.kind = "raise"

\* C6: the stages are called in the order style, research, writing, editing, and
\* at most one model call is in flight: a call is issued only after every call
\* before it has ended, the calls made in the helper thread included.
C6_OneCallAtATime ==
    /\ Cardinality(inflight) <= 1
    /\ inflight \subseteq {Len(calls)}
    /\ \A i \in 1..Len(calls) : i < Len(calls) => calls[i].end.kind # "none"
    /\ Len(calls) > 0 => calls[1].stage = "style"
    /\ \A i \in 1..Len(calls) :
        i > 1 =>
            \/ calls[i].stage = calls[i - 1].stage
            \/ StageIndex(calls[i].stage) = StageIndex(calls[i - 1].stage) + 1

\* C6 witness: the editing call is in flight after an earlier stage was served by
\* the helper thread
C6_Witness ==
    /\ pc = "editing"
    /\ inflight = {Len(calls)}
    /\ \E i \in 1..Len(calls) : calls[i].by = "thread" /\ calls[i].stage = "writing"

(***************************************************************************)
(* Properties of run_workflow / call_workflow                              *)
(***************************************************************************)

\* the agents called so far in the current run, in order
AgentsCalled == [i \in 1..Len(wcalls) |-> wcalls[i].agent]

\* C5: every field of state that a stage's context reads was assigned by a
\* stage that ran strictly earlier in the run; so are the website/domain and
\* topic given to the internal-links stage.
C5_ReadsOnlyEarlierWrites ==
    \A i \in 1..Len(wcalls) :
        \A p \in DOMAIN wcalls[i].ctx :
            /\ writer[p] > 0
            /\ writer[p] < AgentIndex(wcalls[i].agent)

\* C7: the agents are called in the order text_to_json, writing_style, research,
\* writer, seo_analyzer, internal_links, editor, none skipped or repeated, and a
\* successful run has called exactly these seven.
C7_SevenCallsInOrder ==
    /\ Len(wcalls) <= Len(AgentOrder)
    /\ AgentsCalled = SubSeq(AgentOrder, 1, Len(wcalls))
    /\ (wpc = "done" /\ wresult.success) =>
        /\ AgentsCalled = AgentOrder
        /\ \A i \in 1..Len(wcalls) : wcalls[i].ended = "return"

\* C7 witness: a run has succeeded
C7_Witness == wpc = "done" /\ wresult.success /\ Len(wcalls) = 7

\* C8: within one run a stage-output field is assigned at most once and does not
\* change once it has been set (create_blog_post: the keys of results;
\* run_workflow: the five output fields and the seven input fields of state).
C8_FieldsSetOnce ==
    [][/\ runs' = runs =>
            \A k \in StageKeys : results[k] # NONE => results'[k] = results[k]
       /\ wruns' = wruns =>
            \A p \in InputFields \cup OutputFields :
                /\ writes'[p] <= 1
                /\ writes[p] >= 1 => (writes'[p] = writes[p] /\ state'[p] = state[p])
      ]_vars

\* C8 witness: every input and output field of state has been assigned
C8_Witness ==
    /\ wpc = "editor"
    /\ \A p \in InputFields \cup OutputFields : writes[p] = 1

(***************************************************************************)
(* Properties of the prompt builders                                       *)
(***************************************************************************)

\* the titles, keywords and overflow counts a prompt shows, in order
Shown(text, kind) ==
    LET sel == SelectSeq(text, LAMBDA t : t.k = kind)
    IN [i \in 1..Len(sel) |-> sel[i].v]

\* every token of kind a stands before every token of kind b
Before(text, a, b) ==
    \A i, j \in 1..Len(text) : (text[i].k = a /\ text[j].k = b) => i < j

\* C9: a list of more than 50 existing topics is rendered as its first 50 titles,
\* in input order, followed by "(and N more...)" with N = length - 50; a
\* non-empty list of at most 50 is rendered whole, with no overflow note.
C9_TopicsCappedWithNote ==
    (duplication_context.built /\ existing_topics.given) =>
        LET items == existing_topics.items
            text == duplication_context.text
        IN /\ Len(items) > 50 =>
                /\ Shown(text, "bullet") = SubSeq(items, 1, 50)
                /\ Shown(text, "overflow") = <<Len(items) - 50>>
                /\ Before(text, "bullet", "overflow")
           /\ (Len(items) > 0 /\ Len(items) <= 50) =>
                /\ Shown(text, "bullet") = items
                /\ Shown(text, "overflow") = <<>>

\* C9 witness: a list of more than 50 titles has been rendered
C9_Witness ==
    /\ duplication_context.built
    /\ Len(existing_topics.items) > 50
    /\ existing_topics.items[1] # existing_topics.items[2]

\* C10 as claimed: a list of more than 10 keywords is rendered as its first 10
\* keywords, in input order, plus "(and N more...)" with N = length - 10.
C10_KeywordsCappedWithNote ==
    (keyword_context.built /\ target_keywords.given /\ Len(target_keywords.items) > 10) =>
        /\ Shown(keyword_context.text, "kw") = SubSeq(target_keywords.items, 1, 10)
        /\ Shown(keyword_context.text, "overflow") = <<Len(target_keywords.items) - 10>>

\* C10 as amended: a list of more than 10 keywords is rendered as its first 10
\* keywords, in input order, and nothing tells of the keywords left out: the
\* keyword section has no overflow note.
C10_KeywordsCappedSilently ==
    (keyword_context.built /\ target_keywords.given /\ Len(target_keywords.items) > 10) =>
        /\ Shown(keyword_context.text, "kw") = SubSeq(target_keywords.items, 1, 10)
        /\ Shown(keyword_context.text, "overflow") = <<>>

\* C10 witness: a list of more than 10 keywords has been rendered
C10_Witness ==
    /\ keyword_context.built
    /\ Len(target_keywords.items) > 10
    /\ target_keywords.items[1] # target_keywords.items[2]

(***************************************************************************)
(* Properties of _build_prompt                                             *)
(***************************************************************************)

\* the prompt has a token of this kind
HasSection(text, kind) == \E i \in 1..Len(text) : text[i].k = kind

\* an optional input that is given and not empty
NonEmpty(input) == input.given /\ Len(input.items) > 0

\* C11: the prompt _build_prompt returns holds the keyword section exactly when
\* the keyword list is non-empty, the product section exactly when the product
\* target is non-empty, and the duplication section exactly when the list of
\* existing topics is non-empty; an absent or empty input leaves no heading.
C11_SectionIffInput ==
    built_prompt.built =>
        /\ HasSection(built_prompt.text, "kw_header") <=> NonEmpty(target_keywords)
        /\ HasSection(built_prompt.text, "kw_intro") <=> NonEmpty(target_keywords)
        /\ HasSection(built_prompt.text, "product_header") <=> NonEmpty(product_target)
        /\ HasSection(built_prompt.text, "product_important") <=> NonEmpty(product_target)
        /\ HasSection(built_prompt.text, "dup_header") <=> NonEmpty(existing_topics)
        /\ HasSection(built_prompt.text, "dup_critical") <=> NonEmpty(existing_topics)

\* C11 witness: a prompt built with the keyword section, from an empty product
\* target and an empty list of existing topics
C11_Witness ==
    /\ built_prompt.built
    /\ NonEmpty(target_keywords)
    /\ product_target = Some(<<>>)
    /\ existing_topics = Some(<<>>)
    /\ HasSection(built_prompt.text, "kw_header")

(***************************************************************************)
(* Properties of the workflow's instruction builders                       *)
(***************************************************************************)

\* the instructions that call i of the current run was given
Instructions(i) ==
    CASE wcalls[i].agent = "writing_style" -> writing_style_instructions(wcalls[i].ctx)
      [] wcalls[i].agent = "research" -> research_instructions(wcalls[i].ctx)
      [] OTHER -> <<>>

\* the places of a heading in a text
Places(text, heading) == {n \in 1..Len(text) : text[n] = heading}

\* the heading is in the text once, and the line under it is `under`
HeadingOver(text, heading, under) ==
    \E n \in 1..(Len(text) - 1) :
        Places(text, heading) = {n} /\ text[n + 1] = under

RECURSIVE Meant(_, _, _)
Meant(items, list, current) ==
    IF items = <<>> THEN (IF current.open THEN Append(list, TopicRecord(current)) ELSE list)
    ELSE LET it == Head(items)
         IN  CASE it.kind = "heading"
                    -> Meant(Tail(items),
                             IF current.open THEN Append(list, TopicRecord(current))
                             ELSE list,
                             NewTopic(it.text))
               [] it.kind = "field" /\ current.open
                    -> Meant(Tail(items), list,
                             CASE it.label = "**Angle**" -> [current EXCEPT !.angle = it.text]
                               [] it.label = "**Keywords**"
                                    -> [current EXCEPT !.keywords = it.list]
                               [] it.label = "**Rationale**"
                                    -> [current EXCEPT !.rationale = it.text]
                               [] it.label = "**Content Type**"
                                    -> [current EXCEPT !.content_type = it.text])
               [] OTHER -> Meant(Tail(items), list, current)

\* the answer follows the convention of the prompt
FollowsConvention(items) == \A i \in 1..Len(items) : items[i] \in ConventionLines

C14_ReparseGivesSameRecords ==
    (reparsed.done /\ rewritten.by = "format") =>
        /\ ~reparsed.raised
        /\ reparsed.list = topics.list

\* the lines of an answer that are a heading or a labelled field
IsOther(item) == item.kind = "other"
NotOther(item) == ~IsOther(item)

\* C15: the parser raises no error whatever the text; the lines that are neither a
\* heading nor a labelled field change nothing of the result; the result has one
\* record per heading line, so fewer records than asked for when the answer has
\* fewer headings, and none when it has no heading.
C15_NoErrorOnAnyText ==
    topics.done =>
        /\ ~topics.raised
        /\ topics.list = parse_topic_ideas(RenderAll(SelectSeq(doc, NotOther))).list
        /\ Len(topics.list) = Len(SelectSeq(doc, LAMBDA it : it.kind = "heading"))
        /\ Len(topics.list) <= Len(raw_output)

\* C15 witness: an answer with no heading has been parsed into the empty list, its
\* lines being a labelled field and two lines that only look like a field
C15_Witness ==
    /\ topics.done
    /\ topics.list = <<>>
    /\ Len(doc) = 3
    /\ doc[1].kind = "field"
    /\ IsOther(doc[2]) /\ doc[2].text = <<"-", " ", "**Angle**", " ", "alpha">>
    /\ IsOther(doc[3]) /\ doc[3].text = <<"-", " ", "**Angle:**", " ", "alpha">>

(***************************************************************************)
(* The pipeline on a model that always gives the same answer               *)
(***************************************************************************)

\* every call of the run has returned o
AllReturned(o) ==
    \A i \in 1..Len(calls) : calls[i].end = [kind |-> "return", val |-> o]

\* C16: when the model returns the same fixed string to every call,
\* create_blog_post returns a result whose style_guide, research, draft and final
\* fields are present, non-empty and equal to that string, with no error field.
C16_FixedStringInEveryField ==
    \A o \in Outputs :
        (pc = "done" /\ AllReturned(o)) =>
            /\ \A k \in StageKeys : results[k] = o /\ results[k] \notin {NONE, ""}
            /\ results["error"] = NONE
            /\ [i \in 1..Len(calls) |-> calls[i].stage] = StageOrder

\* C16 witness: a run of four calls that all returned "text A" has ended
C16_Witness ==
    /\ pc = "done"
    /\ Len(calls) = 4
    /\ AllReturned("text A")
    /\ results["final"] = "text A"

(***************************************************************************)
(* Properties of parallel_research                                         *)
(***************************************************************************)

\* the areas of the input list
AreaSet == {research_areas[i] : i \in 1..Len(research_areas)}

\* C17: parallel_research returns only after every worker has completed; for every
\* list of areas and every order of completion the mapping returned has exactly the
\* input areas as keys, and maps each area to the output of the research call
\* issued for that area (of the last one, when the list names the area twice).
C17_MappingOfEveryArea ==
    rpc = "returned" =>
        /\ Len(futures) = Len(research_areas)
        /\ \A i \in 1..Len(futures) : Finished(futures[i])
        /\ rresult.kind = "return"
        /\ DOMAIN rresult.val = AreaSet
        /\ \A i \in 1..Len(research_areas) :
            (\A j \in 1..Len(research_areas) : research_areas[j] = research_areas[i] => j <= i)
                => /\ futures[i].area = research_areas[i]
                   /\ futures[i].st = "done"
                   /\ rresult.val[research_areas[i]] = futures[i].val

\* C17 witness: parallel_research has returned the outputs of two areas, one of them
\* named twice in the list with calls that gave different outputs
C17_Witness ==
    /\ rpc = "returned"
    /\ research_areas = <<"market", "pricing", "market">>
    /\ futures[1].val # futures[3].val
    /\ rresult.val["pricing"] # rresult.val["market"]

(***************************************************************************)
(* Properties of the contexts of run_workflow                              *)
(***************************************************************************)

\* what the call of this agent returned in the current run
OutputOf(agent) == wouts[AgentIndex(agent)]

\* C18: the context of every stage carries the outputs of the earlier stages as the
\* state holds them: the writer gets the writing-style and research outputs, the SEO
\* analyzer the writer's draft, the internal-links stage the writer's draft and the
\* SEO analysis, the editor the internal-links output, the writing style and the SEO
\* analysis; and the terminal result is the editor's output.
C18_ContextsCarryEarlierOutputs ==
    /\ \A i \in 1..Len(wcalls) :
        LET c == wcalls[i]
        IN  /\ \A p \in DOMAIN c.ctx \cap OutputFields : c.ctx[p] = state[p]
            /\ c.agent = "writer" =>
                /\ c.ctx["writing_style"] = OutputOf("writing_style")
                /\ c.ctx["research"] = OutputOf("research")
            /\ c.agent = "seo_analyzer" => c.ctx["writer_draft"] = OutputOf("writer")
            /\ c.agent = "internal_links" =>
                /\ c.ctx["writer_draft"] = OutputOf("writer")
                /\ c.ctx["seo_analyze_first_pass"] = OutputOf("seo_analyzer")
            /\ c.agent = "editor" =>
                /\ c.local = OutputOf("internal_links")
                /\ c.ctx["writing_style"] = OutputOf("writing_style")
                /\ c.ctx["seo_analyze_first_pass"] = OutputOf("seo_analyzer")
    /\ (wpc = "done" /\ wresult.success) =>
        /\ Len(wouts) = 7
        /\ wresult.data = OutputOf("editor")

\* C18 witness: a run has ended in which the writer's draft, the linked post and the
\* editor's output all differ from their predecessor
C18_Witness ==
    /\ wpc = "done"
    /\ wresult.success
    /\ state["writer_draft"] # state["internal_links"]
    /\ wresult.data # state["internal_links"]
    /\ state["writing_style"] # state["research"]

(***************************************************************************)
(* Properties of the Streamlit pages                                       *)
(***************************************************************************)

\* C19: in each of the three pages no pipeline run, and so no model call, is started
\* while the API key is empty: every run was started by a script run that read a
\* non-empty key, and a script run that reads an empty key starts none.
C19_NoRunWithoutKey ==
    /\ \A i \in 1..Len(dispatches) : dispatches[i].key # ""
    /\ api_key = "" => (~page.started /\ page.pressed \notin {"generate", "submit"})
    /\ (app = "app" /\ api_key = "" /\ script_runs > 0) => shown.warning # NONE

\* C19 witness: a script run with an empty key came after one that started a run
C19_Witness ==
    /\ script_runs = 2
    /\ api_key = ""
    /\ Len(dispatches) = 1

\* C20: the workflow is never started with a text that fails validate_json; a submit
\* of invalid JSON shows the parser's message and does not set the run flag, and the
\* text given to call_workflow is the text that was validated.
C20_OnlyValidatedJsonDispatched ==
    app = "app_v2_json" =>
        /\ \A i \in 1..Len(dispatches) :
            /\ validate_json(dispatches[i].input).is_valid
            /\ dispatches[i].input \in JsonInputs
        /\ (page.pressed = "submit" /\ page.text \notin JsonInputs) =>
            /\ shown.message = validate_json(page.text).error_msg
            /\ shown.message \in {"JSON input is empty",
                    "Invalid JSON: Expecting ',' delimiter: line 1 column 29 (char 28)"}
            /\ ~session.run
            /\ ~page.started
            /\ session.input # page.text
        /\ (page.pressed = "submit" /\ page.text \in JsonInputs) =>
            /\ page.started
            /\ Len(dispatches) > 0
            /\ dispatches[Len(dispatches)].input = page.text

\* C20 witness: a submit of text that is cut short came after a submit that started
\* the workflow
C20_Witness ==
    /\ app = "app_v2_json"
    /\ page.pressed = "submit"
    /\ page.text = "{\"topics\": [\"safety cutters\"]"
    /\ Len(dispatches) = 1
    /\ shown.message # NONE

\* the last script run started a pipeline run that failed
RunFailed == page.started /\ shown.error # NONE

\* C21: after a failed run the page shows the error message and no generated
\* content, neither of the failed run nor of an earlier run of the session; this
\* holds in all three pages and for every sequence of successful and failed runs.
C21_NoContentAfterFailedRun ==
    RunFailed => (shown.content = NONE /\ shown.message = NONE /\ shown.warning = NONE)

(***************************************************************************)
(* Properties of successive invocations                                    *)
(***************************************************************************)

\* what this invocation holds comes from its own calls: a field of results is the
\* outcome of this invocation's call of its stage, a prompt carries the outcomes of
\* this invocation's earlier stages, and the same for state and the contexts
OwnOutputsOnly ==
    /\ \A s \in DOMAIN StageKey :
        results[StageKey[s]] # NONE =>
            (s \in StagesCalled /\ results[StageKey[s]] = StageValue(s))
    /\ \A i \in 1..Len(calls) :
        /\ calls[i].stage = "writing" =>
            /\ calls[i].prompt[2] = StageValue("style")
            /\ calls[i].prompt[3] = StageValue("research")
        /\ calls[i].stage = "editing" =>
            /\ calls[i].prompt[2] = StageValue("style")
            /\ calls[i].prompt[3] = StageValue("writing")
    /\ \A p \in OutputFields :
        state[p] # NONE =>
            \E i \in 2..Len(wouts) : state[p] = wouts[i]
    /\ \A i \in 1..Len(wcalls) : i <= Len(wouts) + 1
    /\ (wpc = "done" /\ wresult.success) => wresult.data = wouts[Len(AgentOrder)]

\* C22: every invocation starts at stage one with a freshly created state, whatever
\* invocations came before: nothing of an earlier invocation is read by or returned
\* from a later one, and a retry after a failure runs all the stages again.
C22_FreshStateEveryInvocation ==
    [][/\ runs' # runs =>
            /\ results' = EmptyResults
            /\ Len(calls') = 1 /\ calls'[1].stage = StageOrder[1]
            /\ status' \in {<<>>, <<10, 15, 25>>}
       /\ wruns' # wruns =>
            /\ state' = InitialState
            /\ wouts' = <<>>
            /\ Len(wcalls') = 1 /\ wcalls'[1].agent = AgentOrder[1]
       /\ OwnOutputsOnly'
       /\ (retried' /\ pc' = "done" /\ results'["error"] = NONE) =>
            /\ StagesCalled' = {StageOrder[k] : k \in 1..Len(StageOrder)}
            /\ \A i, j \in 1..Len(calls') : \A k, l \in 1..Len(StageOrder) :
                    (i < j /\ calls'[i].stage = StageOrder[k] /\ calls'[j].stage = StageOrder[l])
                        => k <= l
       /\ (retried' /\ wpc' = "done" /\ wresult'.success) =>
            [i \in 1..Len(wcalls') |-> wcalls'[i].agent] = AgentOrder
      ]_vars

\* C22 witness: an invocation that followed a failed one has ended with its final
\* post, after four calls
C22_Witness ==
    /\ retried
    /\ pc = "done"
    /\ results["final"] # NONE
    /\ Len(calls) = 4

(***************************************************************************)
(* Properties of _run_agent_safely, per invocation                         *)
(***************************************************************************)

\* the calls of the invocation of _run_agent_safely for stage s, in order
CallsOf(s) == SelectSeq(calls, LAMBDA c : c.stage = s)

\* C23: _run_agent_safely calls the model at most twice per invocation; the second
\* call is made in a new thread and only after a first call that raised an error
\* whose message contains "event loop" in any case; the caller is blocked until the
\* thread has finished; the outcome is the second call's output or error; any other
\* error of the first call is raised again with no second call.
C23_SecondCallOnlyInThread ==
    /\ \A s \in StagesCalled :
        LET cs == CallsOf(s)
        IN /\ Len(cs) <= 2
           /\ cs[1].by = "main"
           /\ Len(cs) = 2 =>
                /\ cs[2].by = "thread"
                /\ cs[1].end.kind = "raise"
                /\ MentionsEventLoop(cs[1].end.val)
                /\ cs[2].prompt = cs[1].prompt
           /\ (cs[1].end.kind = "raise" /\ ~MentionsEventLoop(cs[1].end.val)) =>
                /\ Len(cs) = 1
                /\ (s = calls[Len(calls)].stage /\ pc = s) =>
                        (apc = "ret" /\ outcome = cs[1].end)
    /\ tpc \in {"ready", "calling"} => (apc = "joining" /\ outcome = NoOutcome)
    /\ apc = "ret" =>
        /\ tpc = "none"
        /\ inflight = {}
        /\ outcome = calls[Len(calls)].end
        /\ outcome.kind # "none"

\* C23 witness: the first call raised "Event loop is closed", the second call, made in
\* the thread, has returned, and its output is the outcome
C23_Witness ==
    /\ apc = "ret"
    /\ Len(calls) >= 2
    /\ calls[Len(calls)].by = "thread"
    /\ calls[Len(calls) - 1].end.val = "Event loop is closed"
    /\ outcome.kind = "return"

\* C24: after the generate branch of app.py's main has run, OPENAI_API_KEY is not in
\* the process environment, whatever the outcome: a result with the final post, a
\* result with "error", or an exception from building or running the orchestrator.
C24_KeyAbsentAfterGenerate ==
    (app = "app" /\ page.started) => env_key = NONE

\* C24 witness: the generate branch has ended in its except branch
C24_Witness ==
    /\ app = "app"
    /\ page.started
    /\ shown.error = AnErrorOccurred
    /\ dispatches[Len(dispatches)].key = "sk-test"

\* the populated keys among style_guide, research, draft are the first ones
PopulatedPrefix ==
    \A i, j \in 1..3 :
        (i < j /\ results[StageKey[StageOrder[j]]] # NONE)
            => results[StageKey[StageOrder[i]]] # NONE

\* C25: create_blog_post, with no status callback or one that does not raise, never
\* raises to its caller: it always returns a mapping, which contains exactly one of
\* the keys "final" and "error"; with "error", the populated keys among style_guide,
\* research and draft are a prefix of that order.
C25_AlwaysReturnsMapping ==
    [][/\ (pc # "done" /\ pc' = "done") =>
            /\ (results'["final"] # NONE) # (results'["error"] # NONE)
            /\ results'["error"] # NONE => PopulatedPrefix'
            /\ results'["final"] # NONE =>
                    \A k \in StageKeys : results'[k] # NONE
       /\ (apc = "ret" /\ outcome.kind = "raise" /\ pc' # pc) =>
            \/ pc = "style" /\ pc' = "research"
            \/ pc' = "done" /\ results'["error"] = outcome.val
       /\ pc' # "done" => (results'["final"] = NONE /\ results'["error"] = NONE)
      ]_vars

\* C25 witness: the editing call has raised and the mapping is returned with "error"
\* and the three earlier fields
C25_Witness ==
    /\ pc = "done"
    /\ results["error"] # NONE
    /\ results["draft"] # NONE
    /\ results["final"] = NONE
    /\ calls[Len(calls)].stage = "editing"

(***************************************************************************)
(* Properties of parallel_research: errors                                 *)
(***************************************************************************)

\* parallel_research has ended: it returned its mapping or raised
ResearchEnded == rpc \in {"returned", "raised"}

\* C26: in parallel_research, when the research call of some area raises, the error
\* goes on to the caller, only after all submitted workers have finished, and no
\* mapping, partial or other, is returned; one research call is issued per element of
\* the input list, also when the list holds the same area more than once.
C26_ErrorOfAnyCallPropagates ==
    /\ (ResearchEnded /\ \E i \in 1..Len(futures) : futures[i].st = "failed") =>
        /\ rresult.kind = "raise"
        /\ \E i \in 1..Len(futures) :
                futures[i].st = "failed" /\ rresult.error = futures[i].val
        /\ rresult.val = <<>>
    /\ rresult.kind = "raise" => \A i \in 1..Len(futures) : Finished(futures[i])
    /\ rpc # "idle" =>
        /\ Len(futures) = Len(research_areas)
        /\ \A i \in 1..Len(futures) : futures[i].area = research_areas[i]

(***************************************************************************)
(* Properties of the status callback                                       *)
(***************************************************************************)

\* the progress values reported before the except branch reports 0
Reported ==
    IF status # <<>> /\ status[Len(status)] = 0
    THEN SubSeq(status, 1, Len(status) - 1)
    ELSE status

\* C27: the progress values passed to the status callback increase strictly along the
\* run, through 10, 15, 25, 35, 60, 85, 100; 100 is reported only after the editing
\* stage has returned; when a stage from research onward raises, the last callback of
\* the run carries 0 and 100 is never reported.
C27_ProgressIncreasesToHundredOrEndsInZero ==
    LET order == <<10, 15, 25, 35, 60, 85, 100>>
    IN  /\ Len(Reported) <= Len(order)
        /\ \A i \in 1..Len(Reported) : Reported[i] = order[i]
        /\ \A i, j \in 1..Len(Reported) : i < j => Reported[i] < Reported[j]
        /\ \A i \in 1..Len(status) :
            status[i] = 100 =>
                /\ i = Len(status)
                /\ pc = "done"
                /\ calls[Len(calls)].stage = "editing"
                /\ calls[Len(calls)].end.kind = "return"
        /\ (pc = "done" /\ args.cb /\ \E s \in StagesCalled \ {"style"} : StageRaised(s)) =>
            /\ status[Len(status)] = 0
            /\ \A i \in 1..Len(status) : status[i] # 100
        /\ (pc = "done" /\ args.cb /\ results["final"] # NONE) =>
            status = order
        /\ ~args.cb => status = <<>>

\* C27 witness: the writing stage has raised after 10, 15, 25, 35 and 60 were
\* reported, and the last value is 0
C27_Witness ==
    /\ pc = "done"
    /\ status = <<10, 15, 25, 35, 60, 0>>
    /\ StageRaised("writing")

(***************************************************************************)
(* Properties of the logging handler of call_workflow                      *)
(***************************************************************************)

\* C28: in call_workflow, for any number of successful-response log records (more
\* than seven included), the progress value set by the handler never decreases and
\* never exceeds 100, the handler never indexes past the end of the seven-entry agent
\* list, "All 7 agents completed" is shown only when the count equals seven, and the
\* handler is off the httpx logger when call_workflow has returned, whether the
\* workflow succeeded or failed.
C28_HandlerBounded ==
    /\ \A i \in 1..Len(progress) : progress[i] <= 100
    /\ \A i, j \in 1..Len(progress) : i < j => progress[i] <= progress[j]
    /\ ~index_error
    /\ placeholder.kind = "all" => placeholder.count = 7
    /\ hpc = "returned" => handlers = 0

\* C28 witness: more than seven successful responses were logged while the workflow
\* ran, the bar went up to 100, and call_workflow has returned a failure
C28_Witness ==
    /\ hpc = "returned"
    /\ ~hresult.success
    /\ agent_count > 7
    /\ progress = <<14, 28, 42, 57, 71, 85, 100>>
    /\ placeholder.kind = "all"

(***************************************************************************)
(* Two runs of run_workflow compared.  The second run is computed from the *)
(* first: its text_to_json answer differs in the two fields only, and      *)
(* every later agent answers as in the first run.                          *)
(***************************************************************************)

Unread == {"seo_keywords", "existing_blog_posts_to_avoid"}

\* the answers of text_to_json that differ from q at most in the two fields
Twins(q) == {r \in ParsedInputs : \A f \in DOMAIN r : f \notin Unread => r[f] = q[f]}

\* what the k-th agent's answer o assigns to state
AssignsOf(k, o) ==
    CASE k = 1 -> o
      [] k = 2 -> writing_style_assigns(o)
      [] k = 3 -> research_assigns(o)
      [] k = 4 -> writer_assigns(o)
      [] k = 5 -> seo_analyzer_assigns(o)
      [] k = 6 -> internal_links_assigns(o)
      [] OTHER -> [p \in {} |-> o]

\* state after the first k agents have answered outs[1], ..., outs[k]
RECURSIVE StateAfter(_, _)
StateAfter(outs, k) ==
    IF k = 0 THEN InitialState
    ELSE LET before == StateAfter(outs, k - 1)
             f == AssignsOf(k, outs[k])
         IN  [p \in StatePaths |-> IF p \in DOMAIN f THEN f[p] ELSE before[p]]

\* the paths of state that the context of an agent is built from
ContextPaths(agent) ==
    CASE agent = "writing_style" -> WritingStyleContext
      [] agent = "research" -> ResearchContext
      [] agent = "writer" -> WriterContext
      [] agent = "seo_analyzer" -> SeoAnalyzerContext
      [] agent = "internal_links" -> InternalLinksContext
      [] agent = "editor" -> EditorContext
      [] OTHER -> {}

\* C29: two runs of run_workflow whose parsed inputs differ only in seo_keywords and
\* existing_blog_posts_to_avoid, with the same model responses, build the same
\* context for every stage after text_to_json and return the same terminal result:
\* the two fields of state are written and never read by a stage.
C29_UnreadFieldsDoNotMatter ==
    Len(wouts) >= 1 =>
        /\ \A r \in Twins(wouts[1]) :
            LET outs == [wouts EXCEPT ![1] = r]
            IN  /\ \A i \in 2..Len(wcalls) :
                    /\ wcalls[i].ctx =
                          Context(StateAfter(outs, i - 1), ContextPaths(wcalls[i].agent))
                    /\ wcalls[i].local # NONE => wcalls[i].local = outs[i - 1]
                /\ (wpc = "done" /\ wresult.success) =>
                        wresult.data = outs[Len(AgentOrder)]
        /\ \A f \in Unread :
            /\ writes[f] = 1
            /\ state[f] = wouts[1][f]
            /\ \A i \in 1..Len(wcalls) : f \notin DOMAIN wcalls[i].ctx

\* C29 witness: a run with keywords and posts to avoid has returned its result; the
\* run it is compared with has neither
C29_Witness ==
    /\ wpc = "done"
    /\ wresult.success
    /\ wouts[1].seo_keywords # <<>>
    /\ wouts[1].existing_blog_posts_to_avoid # <<>>
    /\ \E r \in Twins(wouts[1]) :
        r.seo_keywords = <<>> /\ r.existing_blog_posts_to_avoid = <<>>

====
